---- MODULE Spec2Model ----
(***************************************************************************)
(* A model of the ATS tailoring extension: the keyword extractor           *)
(* (keyword-extractor.js), the asynchronous tailoring engine               *)
(* (tailor-universal.js), the orchestrator (auto-tailor-95.js), the        *)
(* keyword chips (ui-keyword-chips.js) and the remote keyword service      *)
(* (the edge function extract-keywords).                                   *)
(*                                                                         *)
(* JavaScript strings are TLA+ strings; a character is a string of length  *)
(* one.  The character "@" stands for the bullet glyph U+2022, which a     *)
(* TLA+ string cannot hold; no input of the model contains a real "@".     *)
(***************************************************************************)
EXTENDS Integers, Sequences, FiniteSets, TLC

VARIABLES
  op,           \* the operation in progress ("none" before any call)
  jobDescription, \* input: the job description text
  cvText,       \* input: the CV / resume text
  maxKeywords,  \* input: the keyword limit
  targetScore,  \* input: options.targetScore (0: not given)
  kwInput,      \* input: a keyword list handed to the matcher
  env,          \* which optional global modules are loaded
  pc,           \* position of the running call
  keywords,     \* the KeywordSet produced by extraction
  matchResult,  \* the result of KeywordExtractor.matchKeywords
  parsed,       \* TailorUniversal.parseCV of cvText
  reparsed,     \* parseCV of reconstructCV(parsed)
  tailor,       \* the local state of one TailorUniversal.tailorCV call
  run,          \* the local state and observable effects of one orchestrator run
  service,      \* one request to the remote keyword service and its answer
  cvTailor,     \* one call of the section-array engine (CVTailor of cv-tailor.js)
  pair,         \* two tailoring runs in flight at once and what they share
  timers        \* the timer callbacks (setTimeout) that have run

vars == <<op, jobDescription, cvText, maxKeywords, targetScore, kwInput, env, pc,
          keywords, matchResult, parsed, reparsed, tailor, run, service,
          cvTailor, pair, timers>>

(***************************************************************************)
(* Strings                                                                 *)
(***************************************************************************)
BULLET == "@"

Ch(s, i) == SubSeq(s, i, i)

LowerLetters ==
  {"a","b","c","d","e","f","g","h","i","j","k","l","m",
   "n","o","p","q","r","s","t","u","v","w","x","y","z"}

UpperLetters ==
  {"A","B","C","D","E","F","G","H","I","J","K","L","M",
   "N","O","P","Q","R","S","T","U","V","W","X","Y","Z"}

Digits == {"0","1","2","3","4","5","6","7","8","9"}

\* \w of a JavaScript regular expression
IsWordChar(c) == c \in LowerLetters \cup UpperLetters \cup Digits \cup {"_"}

\* \s of a JavaScript regular expression (the white space the inputs use)
IsSpace(c) == c \in {" ", "\n", "\t", "\r"}

LowerOf ==
  [c \in UpperLetters |->
     CASE c = "A" -> "a" [] c = "B" -> "b" [] c = "C" -> "c" [] c = "D" -> "d"
       [] c = "E" -> "e" [] c = "F" -> "f" [] c = "G" -> "g" [] c = "H" -> "h"
       [] c = "I" -> "i" [] c = "J" -> "j" [] c = "K" -> "k" [] c = "L" -> "l"
       [] c = "M" -> "m" [] c = "N" -> "n" [] c = "O" -> "o" [] c = "P" -> "p"
       [] c = "Q" -> "q" [] c = "R" -> "r" [] c = "S" -> "s" [] c = "T" -> "t"
       [] c = "U" -> "u" [] c = "V" -> "v" [] c = "W" -> "w" [] c = "X" -> "x"
       [] c = "Y" -> "y" [] c = "Z" -> "z"]

LowerChar(c) == IF c \in UpperLetters THEN LowerOf[c] ELSE c

\* The concatenation of a sequence of strings (by halves, to keep the
\* evaluation shallow)
RECURSIVE ConcatAll(_)
ConcatAll(parts) ==
  IF Len(parts) = 0 THEN ""
  ELSE IF Len(parts) = 1 THEN parts[1]
  ELSE LET m == Len(parts) \div 2
       IN  ConcatAll(SubSeq(parts, 1, m)) \o ConcatAll(SubSeq(parts, m + 1, Len(parts)))

\* String.prototype.toLowerCase
ToLowerCase(s) == ConcatAll([i \in 1..Len(s) |-> LowerChar(Ch(s, i))])

\* Whether sub occurs in s at index i (1-based)
OccursAt(s, sub, i) ==
  /\ i >= 1
  /\ i + Len(sub) - 1 <= Len(s)
  /\ SubSeq(s, i, i + Len(sub) - 1) = sub

\* String.prototype.includes
Includes(s, sub) == \E i \in 1..(Len(s) - Len(sub) + 1) : OccursAt(s, sub, i)

\* String.prototype.startsWith
StartsWith(s, sub) == OccursAt(s, sub, 1)

\* String.prototype.indexOf from 0-based position `from`; -1 when absent
IndexOfFrom(s, sub, from) ==
  LET hits == {i \in (from + 1)..(Len(s) - Len(sub) + 1) : OccursAt(s, sub, i)}
  IN  IF hits = {} THEN -1
      ELSE (CHOOSE i \in hits : \A j \in hits : i <= j) - 1

\* String.prototype.lastIndexOf (0-based); -1 when absent
LastIndexOf(s, sub) ==
  LET hits == {i \in 1..(Len(s) - Len(sub) + 1) : OccursAt(s, sub, i)}
  IN  IF hits = {} THEN -1
      ELSE (CHOOSE i \in hits : \A j \in hits : i >= j) - 1

\* String.prototype.slice(from) and slice(from, to), 0-based, 0 <= from
SliceFrom(s, from) == SubSeq(s, from + 1, Len(s))
Slice(s, from, to) == SubSeq(s, from + 1, to)

RECURSIVE TrimStart(_)
TrimStart(s) ==
  IF s # "" /\ IsSpace(Head(s)) THEN TrimStart(Tail(s)) ELSE s

RECURSIVE TrimEnd(_)
TrimEnd(s) ==
  IF s # "" /\ IsSpace(Ch(s, Len(s)))
  THEN TrimEnd(SubSeq(s, 1, Len(s) - 1)) ELSE s

\* String.prototype.trim
Trim(s) == TrimEnd(TrimStart(s))

\* String.prototype.split(sep) for a one-character separator
SplitOn(s, sep) ==
  LET IsSep(i) == Ch(s, i) = sep
      at == SelectSeq([i \in 1..Len(s) |-> i], IsSep)
  IN  [k \in 1..(Len(at) + 1) |->
         SubSeq(s, IF k = 1 THEN 1 ELSE at[k - 1] + 1,
                   IF k = Len(at) + 1 THEN Len(s) ELSE at[k] - 1)]

\* Array.prototype.join
Join(parts, sep) ==
  ConcatAll([i \in 1..Len(parts) |-> IF i = 1 THEN parts[i] ELSE sep \o parts[i]])

\* String.prototype.split(/\s+/): maximal runs of non-white-space, with an
\* empty first (last) element when the string starts (ends) with white space
\* 0-based index of the first white-space character of s; -1 if none
FirstSpace(s) ==
  LET hits == {i \in 1..Len(s) : IsSpace(Ch(s, i))}
  IN  IF hits = {} THEN -1
      ELSE (CHOOSE i \in hits : \A j \in hits : i <= j) - 1

RECURSIVE SplitWhitespace(_)
SplitWhitespace(s) ==
  LET i == FirstSpace(s)
  IN  IF i = -1 THEN <<s>>
      ELSE <<Slice(s, 0, i)>> \o SplitWhitespace(TrimStart(SliceFrom(s, i)))

\* s.replace(/\s+/g, ' '): every run of white space becomes one space
CollapseWhitespace(s) ==
  ConcatAll([i \in 1..Len(s) |->
               IF ~IsSpace(Ch(s, i)) THEN Ch(s, i)
               ELSE IF i > 1 /\ IsSpace(Ch(s, i - 1)) THEN "" ELSE " "])

\* s.replace(/\s+/g, ''): all white space removed
StripWhitespace(s) ==
  ConcatAll([i \in 1..Len(s) |-> IF IsSpace(Ch(s, i)) THEN "" ELSE Ch(s, i)])

\* Array helpers
SeqToSet(q) == {q[i] : i \in DOMAIN q}

InSeq(q, x) == \E i \in DOMAIN q : q[i] = x

\* Array.prototype.slice(from, to), 0-based, clipped to the array
SliceSeq(q, from, to) ==
  LET hi == IF to > Len(q) THEN Len(q) ELSE to
  IN  IF from >= hi THEN <<>> ELSE SubSeq(q, from + 1, hi)

NoDuplicates(q) == \A i, j \in DOMAIN q : q[i] = q[j] => i = j

Min(a, b) == IF a <= b THEN a ELSE b

\* Math.floor(n * num / den) for n >= 0
FloorMul(n, num, den) == (n * num) \div den

\* Math.ceil(n * num / den) for n >= 0
CeilMul(n, num, den) == (n * num + den - 1) \div den

\* A percentage that is truncated instead of rounded
TruncatedPercent(a, b) == (100 * a) \div b

\* Math.round(a / b * 100) for 0 <= a, 0 < b: round half up
RoundPercent(a, b) == (200 * a + b) \div (2 * b)

(***************************************************************************)
(* The escaped word-boundary test                                          *)
(*   new RegExp(`\\b${escapeRegex(kw)}\\b`, 'i').test(text)                *)
(***************************************************************************)
\* \b at the gap before index i (1-based) of s
IsBoundary(s, i) ==
  LET before == i >= 2 /\ i - 1 <= Len(s) /\ IsWordChar(Ch(s, i - 1))
      after  == i >= 1 /\ i <= Len(s) /\ IsWordChar(Ch(s, i))
  IN  before # after

\* The test on a text and a keyword that are both in lower case
BoundedOccurrence(t, k) ==
  \E i \in 1..(Len(t) - Len(k) + 1) :
    /\ OccursAt(t, k, i)
    /\ IsBoundary(t, i)
    /\ IsBoundary(t, i + Len(k))

\* The flag i: letters compare by their lower case
WordBoundaryTest(text, kw) == BoundedOccurrence(ToLowerCase(text), ToLowerCase(kw))

(***************************************************************************)
(* keyword-extractor.js (KeywordExtractor)                                 *)
(***************************************************************************)
STOP_WORDS ==
  {"a", "an", "the", "and", "or", "but", "in", "on", "at", "to", "for", "of", "with",
   "by", "from", "as", "is", "was", "are", "were", "been", "be", "have", "has", "had",
   "do", "does", "did", "will", "would", "could", "should", "may", "might", "must",
   "shall", "can", "need", "this", "that", "these", "those", "it", "its", "we", "you",
   "your", "our", "their", "my", "his", "her", "they", "them", "he", "she", "i", "me",
   "who", "what", "where", "when", "why", "how", "which", "all", "each", "every",
   "both", "few", "more", "most", "other", "some", "such", "no", "not", "only", "own",
   "same", "so", "than", "too", "very", "just", "also", "now", "here", "there", "then",
   "about", "after", "before", "above", "below", "between", "under", "over", "through",
   "during", "into", "out", "up", "down", "off", "again", "further", "once", "any",
   "work", "working", "job", "position", "role", "team", "company", "opportunity",
   "looking", "seeking", "required", "requirements", "preferred", "ability", "able",
   "experience", "years", "year", "etc", "including", "include", "includes", "new",
   "well", "based", "using", "within", "across", "strong", "excellent", "good",
   "ensure", "ensuring", "provide", "providing", "support", "supporting", "help",
   "helping", "develop", "developing", "build", "building", "create", "creating",
   "understand", "understanding", "knowledge", "skills", "skill", "candidate",
   "candidates", "applicant", "applicants", "ideally",
   "highly", "plus", "bonus", "nice", "having", "get", "getting", "make",
   "making", "take", "taking", "use", "used", "uses", "per", "via", "like", "want",
   "wants", "wanted", "join", "joining", "joined", "lead", "leading", "leverage"}

HIGH_VALUE_KEYWORDS ==
  {"python", "java", "javascript", "typescript", "c++", "c#", "ruby", "go", "rust",
   "swift", "kotlin", "scala", "php", "perl", "r", "matlab", "julia",
   "react", "angular", "vue", "node", "express", "django", "flask", "spring",
   "tensorflow", "pytorch", "keras", "pandas", "numpy", "scikit-learn", "spark",
   "sql", "mysql", "postgresql", "mongodb", "redis", "elasticsearch", "cassandra",
   "oracle", "snowflake", "bigquery", "redshift", "dynamodb", "firebase",
   "aws", "azure", "gcp", "kubernetes", "docker", "terraform", "jenkins", "ci/cd",
   "circleci", "github", "gitlab", "ansible", "puppet", "chef", "cloudformation",
   "tableau", "powerbi", "looker", "excel", "analytics", "visualization", "etl",
   "data warehouse", "machine learning", "deep learning", "nlp", "ai", "ml",
   "statistics", "regression", "classification", "forecasting", "modeling",
   "agile", "scrum", "kanban", "jira", "confluence", "stakeholder", "communication",
   "presentation", "leadership", "cross-functional", "strategic", "analytical",
   "saas", "b2b", "b2c", "fintech", "healthcare", "e-commerce", "api", "rest",
   "graphql", "microservices", "architecture", "scalability", "optimization"}

COMMON_PHRASES ==
  <<"data visualization", "machine learning", "deep learning", "natural language processing",
    "computer vision", "data science", "data analysis", "data engineering", "data pipeline",
    "business intelligence", "business analyst", "product management", "project management",
    "software development", "software engineering", "full stack", "front end", "back end",
    "cloud computing", "cloud infrastructure", "continuous integration", "continuous deployment",
    "version control", "unit testing", "integration testing", "test automation",
    "agile methodology", "scrum master", "product owner", "user experience", "user interface",
    "customer success", "account management", "sales operations", "marketing automation",
    "financial analysis", "financial modeling", "risk management", "supply chain",
    "cross functional", "stakeholder management", "problem solving", "critical thinking",
    "attention to detail", "time management", "team collaboration", "remote work">>

\* text.replace(/<[^>]*>/g, ' ')
\* (a "<" with no ">" after it starts no tag, and neither does any later "<")
RECURSIVE StripHtmlTags(_)
StripHtmlTags(s) ==
  LET open == IndexOfFrom(s, "<", 0)
      close == IndexOfFrom(s, ">", open + 1)
  IN  IF open = -1 \/ close = -1 THEN s
      ELSE Slice(s, 0, open) \o " " \o StripHtmlTags(SliceFrom(s, close + 1))

\* The characters of /[•\-–—|\/\\:;,]/ the inputs use
IsSeparatorChar(c) == c \in {BULLET, "-", "|", "/", "\\", ":", ";", ","}

\* The characters /[^a-zA-Z0-9\s\+\#\.]/ leaves in place
IsKeptChar(c) ==
  \/ c \in LowerLetters \cup UpperLetters \cup Digits
  \/ IsSpace(c)
  \/ c \in {"+", "#", "."}

\* .replace(/[•\-–—|\/\\:;,]/g, ' ').replace(/[^a-zA-Z0-9\s\+\#\.]/g, ' ')
ReplaceSpecialChars(s) ==
  ConcatAll([i \in 1..Len(s) |->
               IF IsSeparatorChar(Ch(s, i)) \/ ~IsKeptChar(Ch(s, i))
               THEN " " ELSE Ch(s, i)])

cleanText(text) ==
  IF text = "" THEN ""
  ELSE ToLowerCase(Trim(CollapseWhitespace(ReplaceSpecialChars(StripHtmlTags(text)))))

\* /^\d+$/
IsAllDigits(w) == w # "" /\ \A i \in 1..Len(w) : Ch(w, i) \in Digits

KeepToken(word) == Len(word) >= 2 /\ word \notin STOP_WORDS /\ ~IsAllDigits(word)

tokenize(text) == SelectSeq(SplitWhitespace(text), KeepToken)

\* (lowerText.match(new RegExp(phrase, 'g')) || []).length: the matches of a
\* global regular expression do not overlap
RECURSIVE CountOccurrences(_, _)
CountOccurrences(s, sub) ==
  LET i == IndexOfFrom(s, sub, 0)
  IN  IF i = -1 THEN 0
      ELSE 1 + CountOccurrences(SliceFrom(s, i + Len(sub)), sub)

RECURSIVE PhrasesFrom(_, _)
PhrasesFrom(lowerText, phrases) ==
  IF phrases = <<>> THEN <<>>
  ELSE (IF Includes(lowerText, Head(phrases))
        THEN <<[term |-> Head(phrases),
                frequency |-> CountOccurrences(lowerText, Head(phrases)),
                isPhrase |-> TRUE]>>
        ELSE <<>>)
       \o PhrasesFrom(lowerText, Tail(phrases))

extractPhrases(text) == PhrasesFrom(ToLowerCase(text), COMMON_PHRASES)

\* Object.keys(tf): the distinct tokens in the order of their first occurrence
RECURSIVE DistinctInOrder(_, _)
DistinctInOrder(tokens, seen) ==
  IF tokens = <<>> THEN <<>>
  ELSE IF Head(tokens) \in seen THEN DistinctInOrder(Tail(tokens), seen)
  ELSE <<Head(tokens)>> \o DistinctInOrder(Tail(tokens), seen \cup {Head(tokens)})

CountOf(tokens, term) == Cardinality({i \in DOMAIN tokens : tokens[i] = term})

\* calculateTF: term -> count / totalTerms, kept as the count and the total
calculateTF(tokens) ==
  [terms |-> DistinctInOrder(tokens, {}),
   count |-> [t \in SeqToSet(tokens) |-> CountOf(tokens, t)],
   totalTerms |-> Len(tokens)]

HasDigit(term) == \E i \in 1..Len(term) : Ch(term, i) \in Digits
HasPlusOrHash(term) == \E i \in 1..Len(term) : Ch(term, i) \in {"+", "#"}

\* An IDF whose high-value boost is 1.9 instead of 2.0
calculateIDFWeakBoost(term) ==
  ((IF Len(term) >= 8 THEN 15 ELSE IF Len(term) >= 6 THEN 12 ELSE 10)
   * (IF term \in HIGH_VALUE_KEYWORDS THEN 19 ELSE 10)
   * (IF HasDigit(term) \/ HasPlusOrHash(term) THEN 13 ELSE 10)) \div 10

\* calculateIDF, times 100: (1.5 | 1.2 | 1.0) * (2.0 | 1.0) * (1.3 | 1.0)
calculateIDF(term) ==
  (IF Len(term) >= 8 THEN 15 ELSE IF Len(term) >= 6 THEN 12 ELSE 10)
  * (IF term \in HIGH_VALUE_KEYWORDS THEN 2 ELSE 1)
  * (IF HasDigit(term) \/ HasPlusOrHash(term) THEN 13 ELSE 10)

\* A score is the fraction num / den (times 100): tf * idf = count * idf /
\* totalTerms for a term, frequency * 3.0 for a phrase
TermScores(tf) ==
  [i \in DOMAIN tf.terms |->
     [term |-> tf.terms[i],
      num |-> tf.count[tf.terms[i]] * calculateIDF(tf.terms[i]),
      den |-> tf.totalTerms,
      frequency |-> tf.count[tf.terms[i]],
      isPhrase |-> FALSE]]

\* Phrase scores of frequency * 1.0: no boost
PhraseScoresUnboosted(phrases) ==
  [i \in DOMAIN phrases |->
     [term |-> phrases[i].term,
      num |-> phrases[i].frequency * 100,
      den |-> 1,
      frequency |-> phrases[i].frequency,
      isPhrase |-> TRUE]]

PhraseScores(phrases) ==
  [i \in DOMAIN phrases |->
     [term |-> phrases[i].term,
      num |-> phrases[i].frequency * 300,
      den |-> 1,
      frequency |-> phrases[i].frequency,
      isPhrase |-> TRUE]]

\* b.score - a.score > 0: b sorts before a
ScoreLess(a, b) == a.num * b.den < b.num * a.den

\* scores.sort((a, b) => b.score - a.score): descending and stable
RECURSIVE InsertByScore(_, _)
InsertByScore(sorted, item) ==
  IF sorted = <<>> THEN <<item>>
  ELSE IF ScoreLess(Head(sorted), item) THEN <<item>> \o sorted
  ELSE <<Head(sorted)>> \o InsertByScore(Tail(sorted), item)

RECURSIVE SortByScore(_, _)
SortByScore(items, acc) ==
  IF items = <<>> THEN acc
  ELSE SortByScore(Tail(items), InsertByScore(acc, Head(items)))

\* The dedup pass over the sorted scores
RECURSIVE Unique(_, _)
Unique(scores, seen) ==
  IF scores = <<>> THEN <<>>
  ELSE LET item == Head(scores)
           normalized == StripWhitespace(ToLowerCase(item.term))
       IN  IF normalized \in seen THEN Unique(Tail(scores), seen)
           ELSE <<item>> \o
                Unique(Tail(scores),
                       seen \cup {normalized}
                            \cup (IF item.isPhrase
                                  THEN SeqToSet(SplitOn(item.term, " "))
                                  ELSE {}))

Terms(items) == [i \in DOMAIN items |-> items[i].term]

EmptyKeywordSet ==
  [all |-> <<>>, highPriority |-> <<>>, mediumPriority |-> <<>>,
   lowPriority |-> <<>>, total |-> 0]

\* Array.prototype.slice(0, end) of the extractor's ranked list, end >= 0
TopKeywords(unique, limit) == SliceSeq(unique, 0, limit)

\* A medium tier that starts one entry early, inside the high tier
MediumSliceOverlapping(q, highCount, mediumCount) ==
  SliceSeq(q, IF highCount > 0 THEN highCount - 1 ELSE 0, highCount + mediumCount)

MediumSlice(q, highCount, mediumCount) ==
  SliceSeq(q, highCount, highCount + mediumCount)

extractKeywords(jd, limit) ==
  IF jd = "" THEN EmptyKeywordSet
  ELSE
    LET cleaned == cleanText(jd)
        tokens == tokenize(cleaned)
        phrases == extractPhrases(cleaned)
        tf == calculateTF(tokens)
        scores == SortByScore(TermScores(tf) \o PhraseScores(phrases), <<>>)
        unique == Unique(scores, {})
        topKeywords == TopKeywords(unique, limit)
        highCount == Min(15, CeilMul(Len(topKeywords), 2, 5))
        mediumCount == Min(10, CeilMul(Len(topKeywords), 7, 20))
    IN  [all |-> Terms(topKeywords),
         highPriority |-> Terms(SliceSeq(topKeywords, 0, highCount)),
         mediumPriority |-> Terms(MediumSlice(topKeywords, highCount, mediumCount)),
         lowPriority |-> Terms(SliceSeq(topKeywords, highCount + mediumCount,
                                        Len(topKeywords))),
         total |-> Len(topKeywords)]

\* The test of one keyword: new RegExp(`\\b${escaped keywordLower}\\b`, 'i')
\* against cvLower
KeywordMatches(cvLower, keyword) == BoundedOccurrence(cvLower, ToLowerCase(keyword))

MatchScoreOf(matchCount, total) ==
  IF total > 0 THEN RoundPercent(matchCount, total) ELSE 0

matchKeywords(cv, kws) ==
  IF cv = "" \/ kws = <<>>
  THEN [matched |-> <<>>, missing |-> <<>>, matchScore |-> 0, matchCount |-> 0]
  ELSE
    LET cvLower == ToLowerCase(cv)
        IsMatched(k) == KeywordMatches(cvLower, k)
        IsMissing(k) == ~KeywordMatches(cvLower, k)
        matched == SelectSeq(kws, IsMatched)
        missing == SelectSeq(kws, IsMissing)
    IN  [matched |-> matched,
         missing |-> missing,
         matchScore |-> MatchScoreOf(Len(matched), Len(kws)),
         matchCount |-> Len(matched),
         totalKeywords |-> Len(kws)]

(***************************************************************************)
(* auto-tailor-95.js (AutoTailor95): keyword extraction                    *)
(***************************************************************************)
DEFAULT_MAX_KEYWORDS == 35

\* constructor: this.maxKeywords = options.maxKeywords || 35
InstanceMaxKeywords(optMaxKeywords) ==
  IF optMaxKeywords = 0 THEN DEFAULT_MAX_KEYWORDS ELSE optMaxKeywords

SIMPLE_STOP_WORDS ==
  {"a", "an", "the", "and", "or", "but", "in", "on", "at", "to", "for", "of",
   "with", "by", "from", "as", "is", "was", "are", "were", "been", "be",
   "have", "has", "had", "do", "does", "did", "will", "would", "could",
   "should", "may", "might", "must", "shall", "can", "need", "this", "that"}

\* .replace(/[^a-z0-9\s]/g, ' ')
ReplaceNonAlnum(s) ==
  ConcatAll([i \in 1..Len(s) |->
               IF Ch(s, i) \in LowerLetters \cup Digits \/ IsSpace(Ch(s, i))
               THEN Ch(s, i) ELSE " "])

KeepSimpleWord(word) == Len(word) >= 3 /\ word \notin SIMPLE_STOP_WORDS

\* [...freq.entries()].sort((a, b) => b[1] - a[1]): descending and stable
RECURSIVE InsertByFreq(_, _, _)
InsertByFreq(sorted, word, words) ==
  IF sorted = <<>> THEN <<word>>
  ELSE IF CountOf(words, Head(sorted)) < CountOf(words, word) THEN <<word>> \o sorted
  ELSE <<Head(sorted)>> \o InsertByFreq(Tail(sorted), word, words)

RECURSIVE SortByFreq(_, _, _)
SortByFreq(entries, words, acc) ==
  IF entries = <<>> THEN acc
  ELSE SortByFreq(Tail(entries), words, InsertByFreq(acc, Head(entries), words))

simpleKeywordExtraction(text, instMax) ==
  LET words == SelectSeq(SplitWhitespace(ReplaceNonAlnum(ToLowerCase(text))),
                         KeepSimpleWord)
      sorted == SliceSeq(SortByFreq(DistinctInOrder(words, {}), words, <<>>),
                         0, instMax)
      highCount == CeilMul(Len(sorted), 9, 20)
      mediumCount == CeilMul(Len(sorted), 7, 20)
  IN  [all |-> sorted,
       highPriority |-> SliceSeq(sorted, 0, highCount),
       mediumPriority |-> SliceSeq(sorted, highCount, highCount + mediumCount),
       lowPriority |-> SliceSeq(sorted, highCount + mediumCount, Len(sorted)),
       total |-> Len(sorted)]

\* ReliableExtractor.extractReliableKeywords: the ranker of the specification
\* (section 4.2), whose source is not part of the modelled files
extractReliableKeywords(jobText, instMax) == extractKeywords(jobText, instMax)

\* The KeywordExtractor branch of extractJobKeywords
RetierKeywords(extracted, instMax) ==
  LET highCount == Min(11, CeilMul(Len(extracted.all), 9, 20))
      mediumCount == Min(8, CeilMul(Len(extracted.all), 7, 20))
  IN  [all |-> SliceSeq(extracted.all, 0, instMax),
       highPriority |-> SliceSeq(extracted.all, 0, highCount),
       mediumPriority |-> SliceSeq(extracted.all, highCount, highCount + mediumCount),
       lowPriority |-> SliceSeq(extracted.all, highCount + mediumCount,
                                Len(extracted.all)),
       total |-> Len(extracted.all)]

extractJobKeywords(e, jobText, instMax) ==
  IF e.hasReliableExtractor THEN extractReliableKeywords(jobText, instMax)
  ELSE IF e.hasKeywordExtractor
       THEN RetierKeywords(extractKeywords(jobText, instMax), instMax)
       ELSE simpleKeywordExtraction(jobText, instMax)

(***************************************************************************)
(* tailor-universal.js (TailorUniversal)                                   *)
(***************************************************************************)
TARGET_SCORE == 95
MAX_KEYWORDS_SUMMARY == 8
MAX_KEYWORDS_EXPERIENCE == 20
MAX_KEYWORDS_SKILLS == 15

\* The alternatives of each section pattern, in the order of SECTION_PATTERNS;
\* an alternative is its words, which \s+ separates
SECTION_NAMES ==
  <<"summary", "experience", "education", "skills", "certifications", "projects">>

SECTION_PATTERNS ==
  [summary |-> {<<"professional", "summary">>, <<"summary">>, <<"profile">>,
                <<"objective">>, <<"about", "me">>},
   experience |-> {<<"experience">>, <<"work", "experience">>, <<"employment">>,
                   <<"work", "history">>, <<"career", "history">>},
   education |-> {<<"education">>, <<"academic">>, <<"qualifications">>, <<"degree">>},
   skills |-> {<<"skills">>, <<"technical", "skills">>, <<"core", "competencies">>,
               <<"key", "skills">>, <<"technologies">>},
   certifications |-> {<<"certification">>, <<"license">>, <<"credentials">>},
   projects |-> {<<"project">>, <<"portfolio">>, <<"key", "projects">>}]

\* Whether s starts with the words of alt, consecutive words separated by \s+
RECURSIVE StartsWithWords(_, _)
StartsWithWords(s, alt) ==
  IF alt = <<>> THEN TRUE
  ELSE /\ StartsWith(s, Head(alt))
       /\ LET rest == SliceFrom(s, Len(Head(alt)))
          IN  IF Len(alt) = 1 THEN TRUE
              ELSE /\ rest # "" /\ IsSpace(Head(rest))
                   /\ StartsWithWords(TrimStart(rest), Tail(alt))

\* pattern.test(line) for a line without line break: /(?:^|\n)(alt|...)[:\s]*/i
\* matches exactly when the line starts with one of the alternatives, in any
\* letter case; lowerLine is the line in lower case
PatternTest(name, lowerLine) ==
  \E alt \in SECTION_PATTERNS[name] : StartsWithWords(lowerLine, alt)

\* The first section name, in pattern order, whose pattern matches; "" if none
RECURSIVE FirstMatchingSection(_, _)
FirstMatchingSection(names, lowerLine) ==
  IF names = <<>> THEN ""
  ELSE IF PatternTest(Head(names), lowerLine) THEN Head(names)
  ELSE FirstMatchingSection(Tail(names), lowerLine)

\* sections[name] = text
SetSection(sections, name, text) ==
  [k \in DOMAIN sections \cup {name} |-> IF k = name THEN text ELSE sections[k]]

\* A save that pushes every closed section, seen before or not
SaveSectionAlwaysPushing(st) ==
  [st EXCEPT
     !.sections = SetSection(st.sections, st.currentSection,
                             Trim(Join(st.currentContent, "\n"))),
     !.sectionOrder =
        IF st.currentSection # "header"
        THEN Append(st.sectionOrder, st.currentSection)
        ELSE st.sectionOrder]

\* "Save previous section" / "Save last section"
SaveSection(st) ==
  [st EXCEPT
     !.sections = SetSection(st.sections, st.currentSection,
                             Trim(Join(st.currentContent, "\n"))),
     !.sectionOrder =
        IF st.currentSection # "header" /\ ~InSeq(st.sectionOrder, st.currentSection)
        THEN Append(st.sectionOrder, st.currentSection)
        ELSE st.sectionOrder]

\* The body of lines.forEach
ParseLine(st, line) ==
  LET found == FirstMatchingSection(SECTION_NAMES, ToLowerCase(line))
  IN  IF found # ""
      THEN LET saved == IF st.currentContent # <<>> \/ st.currentSection # "header"
                        THEN SaveSection(st) ELSE st
           IN  [saved EXCEPT !.currentSection = found, !.currentContent = <<line>>]
      ELSE [st EXCEPT !.currentContent = Append(st.currentContent, line)]

RECURSIVE ParseLines(_, _)
ParseLines(st, lines) ==
  IF lines = <<>> THEN st ELSE ParseLines(ParseLine(st, Head(lines)), Tail(lines))

EmptySections == [k \in {} |-> ""]

GetSection(sections, name) == IF name \in DOMAIN sections THEN sections[name] ELSE ""

parseCV(cv) ==
  IF cv = "" THEN [header |-> "", sections |-> EmptySections, sectionOrder |-> <<>>]
  ELSE
    LET st0 == [sections |-> EmptySections, sectionOrder |-> <<>>,
                currentSection |-> "header", currentContent |-> <<>>]
        st1 == ParseLines(st0, SplitOn(cv, "\n"))
        st2 == IF st1.currentContent # <<>> THEN SaveSection(st1) ELSE st1
    IN  [header |-> GetSection(st2.sections, "header"),
         sections |-> st2.sections,
         sectionOrder |-> st2.sectionOrder]

\* The parse of a call that has not run
NoParse == [header |-> "", sections |-> EmptySections, sectionOrder |-> <<>>]

\* The same filter without the cap
MissingInUncapped(text, kws, cap) ==
  LET textLower == ToLowerCase(text)
      NotPresent(kw) == ~BoundedOccurrence(textLower, ToLowerCase(kw))
  IN  SelectSeq(kws, NotPresent)

\* keywords.filter(kw => !regex(kw).test(textLower)).slice(0, cap)
MissingIn(text, kws, cap) ==
  LET textLower == ToLowerCase(text)
      NotPresent(kw) == ~BoundedOccurrence(textLower, ToLowerCase(kw))
  IN  SliceSeq(SelectSeq(kws, NotPresent), 0, cap)

\* summary.search(/[.!?]\s+/): 0-based index of the first sentence end; -1 if none
SearchSentenceEnd(s) ==
  LET hits == {i \in 1..(Len(s) - 1) :
                 Ch(s, i) \in {".", "!", "?"} /\ IsSpace(Ch(s, i + 1))}
  IN  IF hits = {} THEN -1
      ELSE (CHOOSE i \in hits : \A j \in hits : i <= j) - 1

enhanceSummary(summary, kws) ==
  IF summary = "" \/ kws = <<>> THEN [enhanced |-> summary, injected |-> <<>>]
  ELSE
    LET missingKeywords == MissingIn(summary, kws, MAX_KEYWORDS_SUMMARY)
        firstSentenceEnd == SearchSentenceEnd(summary)
    IN  IF missingKeywords = <<>> THEN [enhanced |-> summary, injected |-> <<>>]
        ELSE IF firstSentenceEnd > 20
        THEN LET beforePoint == Slice(summary, 0, firstSentenceEnd + 1)
                 afterPoint == SliceFrom(summary, firstSentenceEnd + 1)
                 injection == " Expertise includes "
                              \o Join(SliceSeq(missingKeywords, 0, 4), ", ") \o "."
             IN  [enhanced |-> Trim(beforePoint \o injection \o " " \o Trim(afterPoint)),
                  injected |-> SliceSeq(missingKeywords, 0, 4)]
        ELSE LET injection == " Proficient in "
                              \o Join(SliceSeq(missingKeywords, 0, 5), ", ") \o "."
             IN  [enhanced |-> Trim(Trim(summary) \o injection),
                  injected |-> SliceSeq(missingKeywords, 0, 5)]

\* The bullet glyphs of /^(\s*[-•●○◦▪▸►]\s*)(.+)$/ the inputs use
IsBulletGlyph(c) == c \in {"-", BULLET}

\* line.match(bulletPattern): [ok, prefix (match[1]), text (match[2])]
BulletMatch(line) ==
  LET afterLead == TrimStart(line)
      lead == Len(line) - Len(afterLead)
  IN  IF afterLead = "" \/ ~IsBulletGlyph(Head(afterLead))
      THEN [ok |-> FALSE, prefix |-> "", text |-> ""]
      ELSE LET afterGlyph == Tail(afterLead)
               rest == TrimStart(afterGlyph)
           IN  IF rest # ""
               THEN [ok |-> TRUE,
                     prefix |-> Slice(line, 0, Len(line) - Len(rest)),
                     text |-> rest]
               ELSE IF afterGlyph # ""
               THEN \* \s* gives back its last character to (.+)
                    [ok |-> TRUE,
                     prefix |-> Slice(line, 0, Len(line) - 1),
                     text |-> SliceFrom(line, Len(line) - 1)]
               ELSE [ok |-> FALSE, prefix |-> "", text |-> ""]

\* bulletText.replace(/\.?\s*$/, '')
StripFinalPeriod(s) ==
  LET t == TrimEnd(s)
  IN  IF t # "" /\ Ch(t, Len(t)) = "." THEN SubSeq(t, 1, Len(t) - 1) ELSE t

\* The rewrite of one bullet with one keyword
InjectIntoBullet(bulletText, keyword) ==
  LET injectionPoint == IF Len(bulletText) > 50 THEN LastIndexOf(bulletText, ",")
                        ELSE Len(bulletText)
  IN  IF injectionPoint > 20 /\ injectionPoint < Len(bulletText)
      THEN Slice(bulletText, 0, injectionPoint) \o ", utilizing " \o keyword
           \o SliceFrom(bulletText, injectionPoint)
      ELSE StripFinalPeriod(bulletText) \o " with " \o keyword \o "."

\* lines.map(...) with the running keywordIndex (0-based)
RECURSIVE EnhanceLines(_, _, _)
EnhanceLines(lines, missingKeywords, keywordIndex) ==
  IF lines = <<>> THEN [lines |-> <<>>, injected |-> <<>>]
  ELSE
    LET line == Head(lines)
        m == BulletMatch(line)
        inject == /\ m.ok
                  /\ keywordIndex < Len(missingKeywords)
                  /\ ~WordBoundaryTest(m.text, missingKeywords[keywordIndex + 1])
        keyword == missingKeywords[keywordIndex + 1]
        rest == EnhanceLines(Tail(lines), missingKeywords,
                             IF inject THEN keywordIndex + 1 ELSE keywordIndex)
    IN  IF inject
        THEN [lines |-> <<m.prefix \o InjectIntoBullet(m.text, keyword)>> \o rest.lines,
              injected |-> <<keyword>> \o rest.injected]
        ELSE [lines |-> <<line>> \o rest.lines, injected |-> rest.injected]

enhanceExperience(experience, kws) ==
  IF experience = "" \/ kws = <<>> THEN [enhanced |-> experience, injected |-> <<>>]
  ELSE
    LET missingKeywords == MissingIn(experience, kws, MAX_KEYWORDS_EXPERIENCE)
        r == EnhanceLines(SplitOn(experience, "\n"), missingKeywords, 0)
    IN  IF missingKeywords = <<>> THEN [enhanced |-> experience, injected |-> <<>>]
        ELSE [enhanced |-> Join(r.lines, "\n"), injected |-> r.injected]

SkillsSeparator == " " \o BULLET \o " "

\* The two ways enhanceSkills writes the section
NewSkillsSection(skills, missingKeywords) ==
  "Skills\n" \o Join(missingKeywords, SkillsSeparator)

AppendToSkills(skills, missingKeywords) ==
  Trim(skills) \o SkillsSeparator \o Join(missingKeywords, SkillsSeparator)

enhanceSkills(skills, kws) ==
  IF kws = <<>> THEN [enhanced |-> skills, injected |-> <<>>, created |-> FALSE]
  ELSE
    LET missingKeywords == MissingIn(skills, kws, MAX_KEYWORDS_SKILLS)
    IN  IF missingKeywords = <<>>
        THEN [enhanced |-> skills, injected |-> <<>>, created |-> FALSE]
        ELSE IF skills = "" \/ Len(Trim(skills)) < 20
        THEN [enhanced |-> NewSkillsSection(skills, missingKeywords),
              injected |-> missingKeywords, created |-> TRUE]
        ELSE [enhanced |-> AppendToSkills(skills, missingKeywords),
              injected |-> missingKeywords, created |-> FALSE]

\* enhancedSections[name] || parsed.sections[name], "" when both are missing
SectionContent(p, enhancedSections, name) ==
  IF GetSection(enhancedSections, name) # "" THEN enhancedSections[name]
  ELSE GetSection(p.sections, name)

RECURSIVE OrderedParts(_, _, _)
OrderedParts(p, enhancedSections, order) ==
  IF order = <<>> THEN <<>>
  ELSE (IF SectionContent(p, enhancedSections, Head(order)) # ""
        THEN <<SectionContent(p, enhancedSections, Head(order))>> ELSE <<>>)
       \o OrderedParts(p, enhancedSections, Tail(order))

reconstructCV(p, enhancedSections) ==
  LET parts == (IF p.header # "" THEN <<p.header>> ELSE <<>>)
               \o OrderedParts(p, enhancedSections, p.sectionOrder)
               \o (IF GetSection(enhancedSections, "skills") # ""
                      /\ GetSection(p.sections, "skills") = ""
                   THEN <<enhancedSections["skills"]>> ELSE <<>>)
  IN  Join(parts, "\n\n")

(***************************************************************************)
(* The environment: which optional global modules are loaded               *)
(***************************************************************************)
\* TailorUniversal is loaded; DynamicScore and ValidationEngine are not.
\* reliableMatchScoreField: the result of ReliableExtractor.matchKeywords
\* also carries its score under the name matchScore.
Envs ==
  {e \in [hasReliableExtractor : BOOLEAN, hasKeywordExtractor : BOOLEAN,
          reliableMatchScoreField : BOOLEAN] :
     e.reliableMatchScoreField => e.hasReliableExtractor}

NoEnv ==
  [hasReliableExtractor |-> FALSE, hasKeywordExtractor |-> FALSE,
   reliableMatchScoreField |-> FALSE]

(***************************************************************************)
(* ReliableExtractor.matchKeywords: the matcher of the specification       *)
(* (section 4.3), whose source is not part of the modelled files.  Its     *)
(* callers read the score as `score` (AutoTailor95) and as `matchScore`    *)
(* (TailorUniversal); whether the result carries the second name is a      *)
(* property of the environment (reliableMatchScoreField).                  *)
(***************************************************************************)
reliableMatchKeywords(cv, kws) ==
  LET cvLower == ToLowerCase(cv)
      IsMatched(k) == BoundedOccurrence(cvLower, ToLowerCase(k))
      IsMissing(k) == ~BoundedOccurrence(cvLower, ToLowerCase(k))
      matched == SelectSeq(kws, IsMatched)
  IN  [matched |-> matched,
       missing |-> SelectSeq(kws, IsMissing),
       score |-> IF Len(kws) = 0 THEN 0 ELSE RoundPercent(Len(matched), Len(kws)),
       matchCount |-> Len(matched),
       totalKeywords |-> Len(kws)]

(***************************************************************************)
(* TailorUniversal.tailorCV, one step per stretch between two awaits       *)
(***************************************************************************)
\* A keywords argument: an array (shape "array", the array in `all`) or a
\* KeywordSet object (shape "KeywordSet")
KeywordArray(list) ==
  [shape |-> "array", all |-> list, highPriority |-> <<>>,
   mediumPriority |-> <<>>, lowPriority |-> <<>>]

KeywordSetArg(ks) ==
  [shape |-> "KeywordSet", all |-> ks.all, highPriority |-> ks.highPriority,
   mediumPriority |-> ks.mediumPriority, lowPriority |-> ks.lowPriority]

\* The keyword breakdown of the remote service, whose combined list is
\* ats_priority_keywords: an object without `all` and without tiers
RemoteBreakdownArg(list) ==
  [shape |-> "remote", ats_priority_keywords |-> list, required_skills |-> list]

\* Array.isArray(keywords) ? keywords : (keywords?.all || [])
KeywordListOf(kw) ==
  IF kw.shape = "remote" THEN <<>> ELSE kw.all

NoStats == [summary |-> 0, experience |-> 0, skills |-> 0, total |-> 0]

NoTailorResult ==
  [tailoredCV |-> "", originalCV |-> "", injectedKeywords |-> <<>>,
   hasScores |-> FALSE, initialScore |-> 0, finalScore |-> 0,
   matchedKeywords |-> <<>>, missingKeywords |-> <<>>, stats |-> NoStats]

\* The local variables of a call that has not started
TailorIdle ==
  [pc |-> "none", cv |-> "", kw |-> KeywordArray(<<>>), targetScore |-> 0,
   env |-> NoEnv,
   keywordList |-> <<>>, parsed |-> NoParse,
   initialMatch |-> [matched |-> <<>>, missing |-> <<>>, matchScore |-> 0,
                     defined |-> FALSE],
   enhancedSections |-> EmptySections,
   summaryInjected |-> <<>>, experienceInjected |-> <<>>, skillsInjected |-> <<>>,
   allInjected |-> <<>>, stats |-> NoStats, yields |-> 0,
   error |-> "", result |-> NoTailorResult]

\* options.targetScore || CONFIG.TARGET_SCORE
EffectiveTarget(optTargetScore) ==
  IF optTargetScore = 0 THEN TARGET_SCORE ELSE optTargetScore

\* Entry, up to the first await: the input check, the keyword list, parseCV
TailorStart(cv, kw, optTargetScore, e) ==
  LET t0 == [TailorIdle EXCEPT !.cv = cv, !.kw = kw, !.targetScore = optTargetScore,
                               !.env = e,
                               !.keywordList = KeywordListOf(kw)]
  IN  IF cv = "" THEN [t0 EXCEPT !.pc = "threw", !.error = "CV text is required"]
      ELSE IF t0.keywordList = <<>>
      THEN [t0 EXCEPT !.pc = "returned",
                      !.result = [NoTailorResult EXCEPT !.tailoredCV = cv,
                                                        !.originalCV = cv]]
      ELSE [t0 EXCEPT !.pc = "parsed", !.parsed = parseCV(cv), !.yields = 1]

\* global.ReliableExtractor ? matchKeywords(...) : { matched: [], missing, 0 }
\* `defined` tells whether reading .matchScore gives a number or undefined
TailorInitialMatch(t) ==
  IF t.env.hasReliableExtractor
  THEN LET m == reliableMatchKeywords(t.cv, t.keywordList)
       IN  [matched |-> m.matched, missing |-> m.missing,
            matchScore |-> IF t.env.reliableMatchScoreField THEN m.score ELSE 0,
            defined |-> t.env.reliableMatchScoreField]
  ELSE [matched |-> <<>>, missing |-> t.keywordList, matchScore |-> 0,
        defined |-> TRUE]

\* A continuation that goes on to the strategies whatever the initial score
TailorAfterParseNoShortCut(t) ==
  [t EXCEPT !.pc = "summary", !.initialMatch = TailorInitialMatch(t),
            !.enhancedSections = t.parsed.sections,
            !.yields = t.yields + 1]

\* After the first await: the initial match and the short cut
TailorAfterParse(t) ==
  LET initialMatch == TailorInitialMatch(t)
  IN  IF initialMatch.defined
         /\ initialMatch.matchScore >= EffectiveTarget(t.targetScore)
      THEN [t EXCEPT !.pc = "returned", !.initialMatch = initialMatch,
                     !.result = [NoTailorResult EXCEPT
                                   !.tailoredCV = t.cv, !.originalCV = t.cv,
                                   !.hasScores = initialMatch.defined,
                                   !.initialScore = initialMatch.matchScore,
                                   !.finalScore = initialMatch.matchScore]]
      ELSE [t EXCEPT !.pc = "summary", !.initialMatch = initialMatch,
                     !.enhancedSections = t.parsed.sections,
                     !.yields = t.yields + 1]

NotIn(q, injected) ==
  LET Fresh(k) == ~InSeq(injected, k) IN SelectSeq(q, Fresh)

\* keywords.highPriority || keywordList.slice(0, 8)
SummaryKeywords(t) ==
  IF t.kw.shape = "array" THEN SliceSeq(t.keywordList, 0, 8) ELSE t.kw.highPriority

\* The same stage taking the keywords it injected out of keywords.highPriority
TailorSummaryConsumingKeywords(t) ==
  LET summaryResult == enhanceSummary(GetSection(t.parsed.sections, "summary"),
                                      SummaryKeywords(t))
  IN  [t EXCEPT !.pc = "experience",
                !.enhancedSections = SetSection(t.enhancedSections, "summary",
                                                summaryResult.enhanced),
                !.stats.summary = Len(summaryResult.injected),
                !.summaryInjected = summaryResult.injected,
                !.allInjected = t.allInjected \o summaryResult.injected,
                !.kw.highPriority = NotIn(t.kw.highPriority, summaryResult.injected),
                !.yields = t.yields + 1]

TailorSummary(t) ==
  LET summaryResult == enhanceSummary(GetSection(t.parsed.sections, "summary"),
                                      SummaryKeywords(t))
  IN  [t EXCEPT !.pc = "experience",
                !.enhancedSections = SetSection(t.enhancedSections, "summary",
                                                summaryResult.enhanced),
                !.stats.summary = Len(summaryResult.injected),
                !.summaryInjected = summaryResult.injected,
                !.allInjected = t.allInjected \o summaryResult.injected,
                !.yields = t.yields + 1]

\* [...(keywords.mediumPriority || []), ...(keywords.highPriority || []).filter(..)]
\* .filter(k => !allInjected.includes(k))
ExperienceKeywords(t) ==
  NotIn(t.kw.mediumPriority \o NotIn(t.kw.highPriority, t.allInjected), t.allInjected)

TailorExperience(t) ==
  LET experienceResult == enhanceExperience(GetSection(t.parsed.sections, "experience"),
                                            ExperienceKeywords(t))
  IN  [t EXCEPT !.pc = "skills",
                !.enhancedSections = SetSection(t.enhancedSections, "experience",
                                                experienceResult.enhanced),
                !.stats.experience = Len(experienceResult.injected),
                !.experienceInjected = experienceResult.injected,
                !.allInjected = t.allInjected \o experienceResult.injected,
                !.yields = t.yields + 1]

\* The whole keyword list, whatever was injected before
AllKeywordsAgain(t) == t.keywordList

\* keywordList.filter(k => !allInjected.includes(k))
RemainingKeywords(t) == NotIn(t.keywordList, t.allInjected)

\* The final match of tailorCV
TailorFinalMatch(t, tailoredCV, allInjected) ==
  IF t.env.hasReliableExtractor
  THEN LET m == reliableMatchKeywords(tailoredCV, t.keywordList)
       IN  [matched |-> m.matched, missing |-> m.missing,
            matchScore |-> IF t.env.reliableMatchScoreField THEN m.score ELSE 0,
            defined |-> t.env.reliableMatchScoreField]
  ELSE [matched |-> <<>>, missing |-> <<>>,
        matchScore |-> Min(98, t.initialMatch.matchScore + Len(allInjected) * 3),
        defined |-> TRUE]

\* The same step when the timer is set once more in place of the skills stage
TailorSkillsSuspendedAgain(t) == [t EXCEPT !.yields = t.yields + 1]
\* After the last await: the skills strategy, reconstructCV, the final match
TailorSkills(t) ==
  LET skillsResult == enhanceSkills(GetSection(t.parsed.sections, "skills"),
                                    RemainingKeywords(t))
      enhancedSections == SetSection(t.enhancedSections, "skills", skillsResult.enhanced)
      allInjected == t.allInjected \o skillsResult.injected
      tailoredCV == reconstructCV(t.parsed, enhancedSections)
      finalMatch == TailorFinalMatch(t, tailoredCV, allInjected)
      stats == [t.stats EXCEPT !.skills = Len(skillsResult.injected),
                               !.total = Len(allInjected)]
  IN  [t EXCEPT !.pc = "returned",
                !.enhancedSections = enhancedSections,
                !.skillsInjected = skillsResult.injected,
                !.allInjected = allInjected,
                !.stats = stats,
                !.result = [tailoredCV |-> tailoredCV, originalCV |-> t.cv,
                            injectedKeywords |-> allInjected,
                            hasScores |-> finalMatch.defined,
                            initialScore |-> t.initialMatch.matchScore,
                            finalScore |-> finalMatch.matchScore,
                            matchedKeywords |-> finalMatch.matched,
                            missingKeywords |-> finalMatch.missing,
                            stats |-> stats]]

\* A call of tailorCV run through all of its awaits to its return or throw
RECURSIVE TailorToEnd(_)
TailorToEnd(t) ==
  IF t.pc = "parsed" THEN TailorToEnd(TailorAfterParse(t))
  ELSE IF t.pc = "summary" THEN TailorToEnd(TailorSummary(t))
  ELSE IF t.pc = "experience" THEN TailorToEnd(TailorExperience(t))
  ELSE IF t.pc = "skills" THEN TailorToEnd(TailorSkills(t))
  ELSE t

(***************************************************************************)
(* auto-tailor-95.js (AutoTailor95): the orchestrator autoTailorTo95Plus   *)
(***************************************************************************)
DEFAULT_TARGET_SCORE == 95

\* constructor: this.targetScore = options.targetScore || 95
InstanceTargetScore(optTargetScore) ==
  IF optTargetScore = 0 THEN DEFAULT_TARGET_SCORE ELSE optTargetScore

INPUT_ERROR == "Job description and CV are required"
EXTRACTION_ERROR == "Could not extract keywords from job description"
CALLBACK_ERROR == "error thrown by a callback"

\* if (!jobDescription || !baseCV)
InputsMissingOnlyJob(jd, cv) == jd = ""

InputsMissing(jd, cv) == jd = "" \/ cv = ""

\* if (!keywords.all || keywords.all.length === 0)
NeverEmpty(ks) == FALSE

ExtractionEmpty(ks) == ks.all = <<>>

\* The fallback of calculateInitialMatch and calculateFinalMatch:
\* substring tests; Math.round(0 / 0 * 100) is NaN
IncludesMatch(cv, all) ==
  LET cvLower == ToLowerCase(cv)
      IsMatched(kw) == Includes(cvLower, ToLowerCase(kw))
      IsMissing(kw) == ~Includes(cvLower, ToLowerCase(kw))
      matched == SelectSeq(all, IsMatched)
  IN  [score |-> IF all = <<>> THEN "NaN" ELSE RoundPercent(Len(matched), Len(all)),
       matched |-> matched,
       missing |-> SelectSeq(all, IsMissing),
       matchCount |-> Len(matched),
       totalKeywords |-> Len(all)]

(***************************************************************************)
(* The keyword chips (ui-keyword-chips.js)                                 *)
(***************************************************************************)
\* checkKeywordMatch(cvLower, keyword): the word-boundary test, then
\* cvLower.includes(keywordLower)
checkKeywordMatch(cvLower, keyword) ==
  LET keywordLower == ToLowerCase(keyword)
  IN  IF BoundedOccurrence(cvLower, keywordLower) THEN TRUE
      ELSE Includes(cvLower, keywordLower)

\* renderKeywordChips on an existing container: one chip per keyword, filled
\* (matched) or empty (missing), and the returned { matchCount, total }
renderKeywordChips(kws, cv) ==
  LET cvLower == ToLowerCase(cv)
      IsMatched(k) == checkKeywordMatch(cvLower, k)
      IsMissing(k) == ~checkKeywordMatch(cvLower, k)
      matched == SelectSeq(kws, IsMatched)
  IN  [matched |-> matched,
       missing |-> SelectSeq(kws, IsMissing),
       matchCount |-> Len(matched),
       total |-> Len(kws)]

calculateInitialMatch(e, cv, ks) ==
  IF e.hasReliableExtractor THEN reliableMatchKeywords(cv, ks.all)
  ELSE IncludesMatch(cv, ks.all)

calculateFinalMatch(e, cv, ks) ==
  IF e.hasReliableExtractor THEN reliableMatchKeywords(cv, ks.all)
  ELSE IncludesMatch(cv, ks.all)

NoScoreResult ==
  [score |-> 0, matched |-> <<>>, missing |-> <<>>, matchCount |-> 0,
   totalKeywords |-> 0]

\* One observable step of a run: a callback invocation (callback = TRUE) or a
\* call of one of the orchestrator's own methods
Step(name, value, phase, callback) ==
  [name |-> name, value |-> value, phase |-> phase, callback |-> callback]

\* The steps of autoTailorTo95Plus between two awaits, in program order
ExtractionSteps ==
  <<Step("onProgress", 10, "", TRUE),
    Step("extractJobKeywords", 0, "", FALSE)>>

InitialScoringSteps(initialMatch) ==
  <<Step("onProgress", 25, "", TRUE),
    Step("calculateInitialMatch", 0, "", FALSE),
    Step("onScoreUpdate", initialMatch.score, "initial", TRUE),
    Step("onChipsUpdate", 0, "initial", TRUE),
    Step("delay", 0, "", FALSE)>>

\* A variant that skips tailoring when the initial score meets the target
TailoringStepsUnlessOnTarget(initialMatch, target) ==
  IF initialMatch.score >= target
  THEN <<Step("onProgress", 50, "", TRUE)>>
  ELSE <<Step("onProgress", 50, "", TRUE),
         Step("tailorCVForTarget", 0, "", FALSE)>>

TailoringSteps(initialMatch, target) ==
  <<Step("onProgress", 50, "", TRUE),
    Step("tailorCVForTarget", 0, "", FALSE)>>

\* A variant that reports completion before the final match is calculated
FinalScoringStepsCompleteFirst(finalMatch) ==
  <<Step("onProgress", 75, "", TRUE),
    Step("onProgress", 100, "", TRUE),
    Step("calculateFinalMatch", 0, "", FALSE),
    Step("onScoreUpdate", finalMatch.score, "final", TRUE),
    Step("onChipsUpdate", 0, "final", TRUE),
    Step("return", 0, "", FALSE)>>

FinalScoringSteps(finalMatch) ==
  <<Step("onProgress", 75, "", TRUE),
    Step("calculateFinalMatch", 0, "", FALSE),
    Step("onScoreUpdate", finalMatch.score, "final", TRUE),
    Step("onChipsUpdate", 0, "final", TRUE),
    Step("onProgress", 100, "", TRUE),
    Step("return", 0, "", FALSE)>>

\* The number of callback invocations among the first n steps
RECURSIVE CallbacksIn(_, _)
CallbacksIn(steps, n) ==
  IF n = 0 THEN 0
  ELSE CallbacksIn(steps, n - 1) + (IF steps[n].callback THEN 1 ELSE 0)

\* The steps that happen when the throwAt-th callback invocation of `steps`
\* throws (0: none throws): everything up to and including that invocation
Executed(steps, throwAt) ==
  IF throwAt = 0 THEN steps
  ELSE LET n == CHOOSE k \in 1..Len(steps) :
                  steps[k].callback /\ CallbacksIn(steps, k) = throwAt
       IN  SubSeq(steps, 1, n)

Happened(steps, name) == \E i \in DOMAIN steps : steps[i].name = name

NoRunResult ==
  [tailoredCV |-> "", originalCV |-> "", keywords |-> EmptyKeywordSet,
   initialScore |-> 0, finalScore |-> 0,
   matchedKeywords |-> <<>>, missingKeywords |-> <<>>, injectedKeywords |-> <<>>,
   stats |-> [keywordsExtracted |-> 0, keywordsInjected |-> 0,
              scoreImprovement |-> 0]]

\* A result that reports the matched and missing keywords of the initial match
RunResultOfInitialMatch(cv, ks, initialMatch, finalMatch, tailorResult) ==
  [tailoredCV |-> tailorResult.tailoredCV,
   originalCV |-> cv,
   keywords |-> ks,
   initialScore |-> initialMatch.score,
   finalScore |-> finalMatch.score,
   matchedKeywords |-> initialMatch.matched,
   missingKeywords |-> initialMatch.missing,
   injectedKeywords |-> tailorResult.injectedKeywords,
   stats |-> [keywordsExtracted |-> Len(ks.all),
              keywordsInjected |-> Len(tailorResult.injectedKeywords),
              scoreImprovement |-> finalMatch.score - initialMatch.score]]

\* The value autoTailorTo95Plus returns
RunResult(cv, ks, initialMatch, finalMatch, tailorResult) ==
  [tailoredCV |-> tailorResult.tailoredCV,
   originalCV |-> cv,
   keywords |-> ks,
   initialScore |-> initialMatch.score,
   finalScore |-> finalMatch.score,
   matchedKeywords |-> finalMatch.matched,
   missingKeywords |-> finalMatch.missing,
   injectedKeywords |-> tailorResult.injectedKeywords,
   stats |-> [keywordsExtracted |-> Len(ks.all),
              keywordsInjected |-> Len(tailorResult.injectedKeywords),
              scoreImprovement |-> finalMatch.score - initialMatch.score]]

\* A run that has not started
NoRun ==
  [steps |-> <<>>, error |-> "", returned |-> FALSE,
   initialMatch |-> NoScoreResult, finalMatch |-> NoScoreResult,
   result |-> NoRunResult]

(***************************************************************************)
(* The remote keyword service: the handler passed to serve()               *)
(***************************************************************************)
MIN_DESCRIPTION_LENGTH == 50
ATS_PRIORITY_LIMIT == 40
PREFERRED_SKILLS_LIMIT == 10
SOFT_SKILLS_LIMIT == 5

\* A request that has not arrived
NoService ==
  [pc |-> "none", method |-> "", body |-> [kind |-> "none"], apiKey |-> FALSE,
   upstreamCalls |-> 0,
   upstream |-> [kind |-> "none", status |-> 0, payload |-> "none"],
   status |-> 0, success |-> FALSE, error |-> "", keywords |-> <<>>]

\* The description of a body: absent, a string or a number
NoDescription == [kind |-> "absent", text |-> ""]

\* A validation that rejects only a missing description
DescriptionRejectedWhenAbsent(description) == description.kind = "absent"

\* !description || description.length < 50
\* (a number other than 0 is truthy and has no length: undefined < 50 is false)
DescriptionRejected(description) ==
  \/ description.kind = "absent"
  \/ description.kind = "string"
       /\ (description.text = "" \/ Len(description.text) < MIN_DESCRIPTION_LENGTH)

\* new Response(JSON.stringify({ error }), { status })
ErrorResponse(sv, status, error) ==
  [sv EXCEPT !.pc = "responded", !.status = status, !.error = error]

\* .filter((kw, idx, arr) => arr.indexOf(kw) === idx)
Dedupe(q) == DistinctInOrder(q, {})

\* The prioritized list built from the model's tool-call arguments
AtsPriorityKeywords(extracted) ==
  Dedupe(extracted.required_skills
         \o extracted.tools_technologies
         \o extracted.certifications
         \o SliceSeq(extracted.preferred_skills, 0, PREFERRED_SKILLS_LIMIT)
         \o SliceSeq(extracted.soft_skills, 0, SOFT_SKILLS_LIMIT))

\* After `await req.json()`: the validation, the key and the call of fetch
ServiceBody(sv) ==
  IF sv.body.kind = "not_json" THEN ErrorResponse(sv, 500, "Unexpected end of JSON input")
  ELSE IF sv.body.kind = "null"
  THEN ErrorResponse(sv, 500, "Cannot destructure property 'description'")
  ELSE IF DescriptionRejected(sv.body.description)
  THEN ErrorResponse(sv, 400, "Job description too short. Please provide at least 50 characters.")
  ELSE IF ~sv.apiKey THEN ErrorResponse(sv, 500, "LOVABLE_API_KEY not configured")
  ELSE IF sv.body.description.kind # "string"
  THEN ErrorResponse(sv, 500, "description.substring is not a function")
  ELSE [sv EXCEPT !.pc = "fetching", !.upstreamCalls = sv.upstreamCalls + 1]

\* After `await fetch(...)`: the gateway answered (outcome) or fetch rejected
ServiceFetched(sv, outcome) ==
  IF outcome.kind = "network_error" THEN ErrorResponse(sv, 500, "fetch failed")
  ELSE [sv EXCEPT !.pc = "readingUpstream", !.upstream = outcome]

\* extracted.job_title || jobTitle || ""
JobTitleOf(extracted, jobTitle) ==
  IF extracted.job_title # "" THEN extracted.job_title ELSE jobTitle

\* After `await response.text()` or `await response.json()`
ServiceUpstreamRead(sv) ==
  LET up == sv.upstream
  IN  IF up.kind = "status"
      THEN IF up.status = 429
           THEN ErrorResponse(sv, 429, "Rate limit exceeded. Please try again in a moment.")
           ELSE ErrorResponse(sv, 500, "AI Gateway error")
      ELSE IF up.payload = "not_json"
      THEN ErrorResponse(sv, 500, "Unexpected token in JSON")
      ELSE IF up.payload \in {"no_tool_call", "wrong_tool"}
      THEN ErrorResponse(sv, 500, "Failed to extract keywords from AI response")
      ELSE IF up.payload = "bad_arguments"
      THEN ErrorResponse(sv, 500, "Unexpected token in JSON")
      ELSE IF up.payload = "null_arguments"
      THEN ErrorResponse(sv, 500, "Cannot read properties of null")
      ELSE [sv EXCEPT
              !.pc = "responded", !.status = 200, !.success = TRUE,
              !.keywords =
                [required_skills |-> up.arguments.required_skills,
                 preferred_skills |-> up.arguments.preferred_skills,
                 certifications |-> up.arguments.certifications,
                 soft_skills |-> up.arguments.soft_skills,
                 tools_technologies |-> up.arguments.tools_technologies,
                 job_title |-> JobTitleOf(up.arguments, sv.body.jobTitle),
                 ats_priority_keywords |->
                   SliceSeq(AtsPriorityKeywords(up.arguments), 0, ATS_PRIORITY_LIMIT)]]

(***************************************************************************)
(* cv-tailor.js (CVTailor, the second module of auto-tailor-95.js): the    *)
(* section-array engine.  A section is the sequence of its lines.          *)
(***************************************************************************)
\* The keys of SECTION_PATTERNS in the order Object.entries gives them
CVTailor_SECTION_NAMES ==
  <<"summary", "experience", "skills", "education", "certifications", "achievements">>

\* The keys of the `sections` object parseCV builds
CVTailor_SECTION_KEYS ==
  {"header", "summary", "experience", "skills", "education", "certifications",
   "achievements", "other"}

\* The alternatives of each pattern /^(A\s*B|...)[\s:]*$/im, word by word, in
\* lower case
CVTailor_SECTION_PATTERNS ==
  [summary |-> {<<"professional", "summary">>, <<"summary">>, <<"profile">>,
                <<"objective">>, <<"about", "me">>, <<"career", "summary">>},
   experience |-> {<<"experience">>, <<"work", "experience">>,
                   <<"professional", "experience">>, <<"employment", "history">>},
   skills |-> {<<"skills">>, <<"technical", "skills">>, <<"core", "skills">>,
               <<"key", "skills">>, <<"competencies">>},
   education |-> {<<"education">>, <<"academic", "background">>, <<"qualifications">>},
   certifications |-> {<<"certifications">>, <<"certificates">>, <<"licenses">>,
                       <<"credentials">>},
   achievements |-> {<<"achievements">>, <<"accomplishments">>, <<"awards">>,
                     <<"honors">>}]

\* [\s:]*$ : nothing but white space and colons up to the end
IsHeaderTail(s) == \A i \in 1..Len(s) : IsSpace(Ch(s, i)) \/ Ch(s, i) = ":"

\* Whether s is the words of alt, consecutive words separated by \s*, followed
\* by [\s:]* up to the end
RECURSIVE IsHeaderLine(_, _)
IsHeaderLine(s, alt) ==
  IF alt = <<>> THEN IsHeaderTail(s)
  ELSE /\ StartsWith(s, Head(alt))
       /\ LET rest == SliceFrom(s, Len(Head(alt)))
          IN  IF Len(alt) = 1 THEN IsHeaderTail(rest)
              ELSE IsHeaderLine(TrimStart(rest), Tail(alt))

\* pattern.test(trimmed), trimmedLower the trimmed line in lower case
CVTailor_PatternTest(name, trimmedLower) ==
  \E alt \in CVTailor_SECTION_PATTERNS[name] : IsHeaderLine(trimmedLower, alt)

RECURSIVE CVTailor_FirstMatchingSection(_, _)
CVTailor_FirstMatchingSection(names, trimmedLower) ==
  IF names = <<>> THEN ""
  ELSE IF CVTailor_PatternTest(Head(names), trimmedLower) THEN Head(names)
  ELSE CVTailor_FirstMatchingSection(Tail(names), trimmedLower)

CVTailor_EmptySections == [k \in CVTailor_SECTION_KEYS |-> <<>>]

\* The body of `for (const line of lines)`: st = [sections, currentSection]
CVTailor_ParseLine(st, line) ==
  LET found == CVTailor_FirstMatchingSection(CVTailor_SECTION_NAMES,
                                             ToLowerCase(Trim(line)))
      target == IF found # "" THEN found ELSE st.currentSection
  IN  [sections |-> [st.sections EXCEPT ![target] = Append(@, line)],
       currentSection |-> target]

RECURSIVE CVTailor_ParseLines(_, _)
CVTailor_ParseLines(st, lines) ==
  IF lines = <<>> THEN st
  ELSE CVTailor_ParseLines(CVTailor_ParseLine(st, Head(lines)), Tail(lines))

\* CVTailor.parseCV; the `sections: {}` of an empty text has no lines either
CVTailor_parseCV(cv) ==
  IF cv = "" THEN [raw |-> "", sections |-> CVTailor_EmptySections]
  ELSE [raw |-> cv,
        sections |-> CVTailor_ParseLines([sections |-> CVTailor_EmptySections,
                                          currentSection |-> "header"],
                                         SplitOn(cv, "\n")).sections]

\* hasKeyword(text, keyword)
hasKeyword(text, keyword) ==
  text # "" /\ keyword # "" /\ WordBoundaryTest(text, keyword)

\* The standard section order of CVTailor.reconstructCV
CVTailor_SECTION_ORDER ==
  <<"summary", "experience", "education", "skills", "certifications",
    "achievements", "other">>

\* The loop over the standard section order, parts being what was pushed so far
RECURSIVE CVTailor_PushSections(_, _, _)
CVTailor_PushSections(parts, sections, order) ==
  IF order = <<>> THEN parts
  ELSE IF sections[Head(order)] # <<>>
  THEN CVTailor_PushSections(
         (IF parts # <<>> THEN Append(parts, "") ELSE parts)
           \o <<Join(sections[Head(order)], "\n")>>,
         sections, Tail(order))
  ELSE CVTailor_PushSections(parts, sections, Tail(order))

\* CVTailor.reconstructCV(sections, originalParsed)
CVTailor_reconstructCV(sections) ==
  Join(CVTailor_PushSections(
         IF sections["header"] # <<>> THEN <<Join(sections["header"], "\n")>> ELSE <<>>,
         sections, CVTailor_SECTION_ORDER),
       "\n")

\* line.replace(/([.,])(\s*)$/, ` ${phrase}$1$2`) for marks = {".", ","} and
\* line.replace(/\.(\s*)$/, `${phrase}.$1`) for marks = {"."}: the phrase goes
\* before the final mark; a line that does not end with a mark is unchanged
InsertBeforeFinalMark(line, marks, phrase) ==
  LET t == TrimEnd(line)
  IN  IF t # "" /\ Ch(t, Len(t)) \in marks
      THEN SubSeq(t, 1, Len(t) - 1) \o phrase \o Ch(t, Len(t)) \o SliceFrom(line, Len(t))
      ELSE line

\* kw => !hasKeyword(text, kw) && !existingMatched.includes(kw)
CVTailor_Missing(kws, text, existingMatched) ==
  LET Absent(kw) == ~hasKeyword(text, kw) /\ ~InSeq(existingMatched, kw)
  IN  SelectSeq(kws, Absent)

\* Strategy 1 of enhanceSummary from line i (0-based) on:
\* st = [lines, missing, injected]
RECURSIVE SummaryStrategy1(_, _, _)
SummaryStrategy1(st, i, targetCount) ==
  IF ~(i < Len(st.lines) /\ Len(st.injected) < targetCount) THEN st
  ELSE
    LET line == st.lines[i + 1]
    IN  IF Len(Trim(line)) < 20 THEN SummaryStrategy1(st, i + 1, targetCount)
        ELSE IF Includes(line, ".") /\ st.missing # <<>>
        THEN LET kw == Head(st.missing)
                 enhancedLine == InsertBeforeFinalMark(line, {"."}, ", including " \o kw)
             IN  SummaryStrategy1(
                   [lines |-> IF enhancedLine # line
                              THEN [st.lines EXCEPT ![i + 1] = enhancedLine]
                              ELSE st.lines,
                    missing |-> Tail(st.missing),
                    injected |-> IF enhancedLine # line
                                 THEN Append(st.injected, kw) ELSE st.injected],
                   i + 1, targetCount)
        ELSE SummaryStrategy1(st, i + 1, targetCount)

\* Array.prototype.splice(index, 0, item)
InsertAt(q, index, item) ==
  SubSeq(q, 1, Min(index, Len(q))) \o <<item>> \o SubSeq(q, Min(index, Len(q)) + 1, Len(q))

\* Strategy 2 of enhanceSummary: one new sentence with up to four keywords
SummaryStrategy2(st) ==
  IF Len(st.injected) < 4 /\ Len(st.missing) >= 3
  THEN LET taken == SliceSeq(st.missing, 0, Min(4, Len(st.missing)))
           lastKeyword == taken[Len(taken)]
           keywordsToAdd == SubSeq(taken, 1, Len(taken) - 1)
           keywordList == IF keywordsToAdd # <<>>
                          THEN Join(keywordsToAdd, ", ") \o " and " \o lastKeyword
                          ELSE lastKeyword
           newSentence == "Proficient in " \o keywordList
                          \o " with a proven track record of delivering results."
           insertIndex == IF Len(st.lines) - 1 > 1 THEN Len(st.lines) - 1 ELSE 1
       IN  [lines |-> InsertAt(st.lines, insertIndex, newSentence),
            missing |-> SliceSeq(st.missing, Len(taken), Len(st.missing)),
            injected |-> st.injected \o keywordsToAdd \o <<lastKeyword>>]
  ELSE st

\* CVTailor.enhanceSummary(summaryLines, highPriorityKeywords, existingMatched)
CVTailor_enhanceSummary(summaryLines, highPriorityKeywords, existingMatched) ==
  IF summaryLines = <<>> \/ highPriorityKeywords = <<>>
  THEN [lines |-> summaryLines, injected |-> <<>>]
  ELSE
    LET targetCount == Min(8, Len(highPriorityKeywords))
        missingKeywords == CVTailor_Missing(highPriorityKeywords,
                                            Join(summaryLines, " "), existingMatched)
    IN  IF missingKeywords = <<>> THEN [lines |-> summaryLines, injected |-> <<>>]
        ELSE LET st == SummaryStrategy2(
                         SummaryStrategy1([lines |-> summaryLines,
                                           missing |-> missingKeywords,
                                           injected |-> <<>>], 1, targetCount))
             IN  [lines |-> st.lines, injected |-> st.injected]

\* /^\d+\./ on the trimmed line
IsNumbered(trimmed) ==
  \E n \in 1..(Len(trimmed) - 1) :
    /\ \A i \in 1..n : Ch(trimmed, i) \in Digits
    /\ Ch(trimmed, n + 1) = "."

\* trimmed.startsWith('•') || startsWith('-') || startsWith('*') || /^\d+\./
IsBulletLine(line) ==
  LET trimmed == Trim(line)
  IN  trimmed # "" /\ (Head(trimmed) \in {BULLET, "-", "*"} \/ IsNumbered(trimmed))

\* The inner loop `for (let j = 0; j < 2 && keywordIndex < available.length; j++)`
\* on one bullet: b = [line, injected, keywordIndex]
RECURSIVE InjectInBullet(_, _, _)
InjectInBullet(b, availableKeywords, j) ==
  IF ~(j < 2 /\ b.keywordIndex < Len(availableKeywords)) THEN b
  ELSE
    LET kw == availableKeywords[b.keywordIndex + 1]
    IN  IF hasKeyword(b.line, kw) THEN InjectInBullet(b, availableKeywords, j + 1)
        ELSE IF Includes(b.line, ".") \/ Includes(b.line, ",")
        THEN InjectInBullet(
               [line |-> InsertBeforeFinalMark(
                           b.line, {".", ","},
                           " " \o (IF j = 0 THEN "utilizing " ELSE "and ") \o kw),
                injected |-> Append(b.injected, kw),
                keywordIndex |-> b.keywordIndex + 1],
               availableKeywords, j + 1)
        ELSE InjectInBullet(
               [line |-> TrimEnd(b.line) \o " using " \o kw,
                injected |-> Append(b.injected, kw),
                keywordIndex |-> b.keywordIndex + 1],
               availableKeywords, j + 1)

\* The outer loop of enhanceExperience from line i (0-based) on:
\* st = [lines, injected, keywordIndex, bulletCount]
RECURSIVE ExperienceLoop(_, _, _)
ExperienceLoop(st, availableKeywords, i) ==
  IF ~(i < Len(st.lines) /\ st.bulletCount < 10) THEN st
  ELSE IF ~IsBulletLine(st.lines[i + 1]) THEN ExperienceLoop(st, availableKeywords, i + 1)
  ELSE IF st.keywordIndex >= Len(availableKeywords)
  THEN ExperienceLoop([st EXCEPT !.bulletCount = @ + 1], availableKeywords, i + 1)
  ELSE LET b == InjectInBullet([line |-> st.lines[i + 1], injected |-> st.injected,
                                keywordIndex |-> st.keywordIndex],
                               availableKeywords, 0)
       IN  ExperienceLoop([lines |-> [st.lines EXCEPT ![i + 1] = b.line],
                           injected |-> b.injected,
                           keywordIndex |-> b.keywordIndex,
                           bulletCount |-> st.bulletCount + 1],
                          availableKeywords, i + 1)

\* CVTailor.enhanceExperience(experienceLines, keywords, existingMatched)
CVTailor_enhanceExperience(experienceLines, kws, existingMatched) ==
  IF experienceLines = <<>> THEN [lines |-> experienceLines, injected |-> <<>>]
  ELSE
    LET availableKeywords ==
          CVTailor_Missing(kws.highPriority \o kws.mediumPriority,
                           Join(experienceLines, " "), existingMatched)
        st == ExperienceLoop([lines |-> experienceLines, injected |-> <<>>,
                              keywordIndex |-> 0, bulletCount |-> 0],
                             availableKeywords, 0)
    IN  [lines |-> st.lines, injected |-> st.injected]

\* Math.ceil(n / 2)
CeilHalf(n) == (n + 1) \div 2

\* The section enhanceSkills writes when the resume has no skills lines
CVTailor_NewSkillsSection(allSkills) ==
  <<"SKILLS",
    BULLET \o " Technical: " \o Join(SliceSeq(allSkills, 0, CeilHalf(Len(allSkills))), ", "),
    BULLET \o " Additional: "
      \o Join(SliceSeq(allSkills, CeilHalf(Len(allSkills)), Len(allSkills)), ", ")>>

\* line.startsWith('•') || line.startsWith('-') || line.includes(':') ||
\* line.includes(','), line being trimmed
IsSkillsListLine(line) ==
  LET t == Trim(line)
  IN  \/ t # "" /\ Head(t) \in {BULLET, "-"}
      \/ Includes(t, ":")
      \/ Includes(t, ",")

\* The last line (0-based) that is a list line; -1 if none
TargetLineIndex(lines) ==
  LET hits == {i \in DOMAIN lines : IsSkillsListLine(lines[i])}
  IN  IF hits = {} THEN -1 ELSE (CHOOSE i \in hits : \A j \in hits : j <= i) - 1

\* The keywords a synthesized skills section lists, whatever was matched or
\* injected before
SkillsForNewSection(kws, existingMatched) ==
  kws.highPriority \o SliceSeq(kws.mediumPriority, 0, 7)

\* CVTailor.enhanceSkills(skillsLines, keywords, existingMatched)
CVTailor_enhanceSkills(skillsLines, kws, existingMatched) ==
  IF skillsLines = <<>>
  THEN LET allSkills == SkillsForNewSection(kws, existingMatched)
       IN  IF allSkills = <<>> THEN [lines |-> <<>>, injected |-> <<>>]
           ELSE [lines |-> CVTailor_NewSkillsSection(allSkills), injected |-> allSkills]
  ELSE
    LET missingSkills == CVTailor_Missing(kws.highPriority \o kws.mediumPriority,
                                          Join(skillsLines, " "), existingMatched)
        targetLineIndex == TargetLineIndex(skillsLines)
    IN  IF missingSkills = <<>> THEN [lines |-> skillsLines, injected |-> <<>>]
        ELSE IF targetLineIndex = -1
        THEN LET skillsToAdd == SliceSeq(missingSkills, 0, 10)
             IN  [lines |-> Append(skillsLines,
                                   BULLET \o " Additional: " \o Join(skillsToAdd, ", ")),
                  injected |-> skillsToAdd]
        ELSE LET skillsToAdd == SliceSeq(missingSkills, 0, 8)
             IN  [lines |-> [skillsLines EXCEPT ![targetLineIndex + 1] =
                               TrimEnd(@) \o ", " \o Join(skillsToAdd, ", ")],
                  injected |-> skillsToAdd]

NoCVTailorStrategy == [lines |-> <<>>, injected |-> <<>>]

\* The state of a CVTailor call that has not run
NoCVTailor ==
  [pc |-> "none", parsed |-> CVTailor_parseCV(""),
   initialMatched |-> <<>>,
   summaryResult |-> NoCVTailorStrategy, experienceResult |-> NoCVTailorStrategy,
   skillsResult |-> NoCVTailorStrategy,
   tailoredCV |-> "", injectedKeywords |-> <<>>, matchScore |-> 0,
   stats |-> NoStats,
   reconstructed |-> "", reparsed |-> CVTailor_parseCV(""), reconstructedAgain |-> ""]

\* global.KeywordExtractor ? matchKeywords(cvText, keywords.all)
\*                         : { matched: [], missing: keywords.all, matchScore: 0 }
CVTailor_InitialMatch(e, cv, all) ==
  IF e.hasKeywordExtractor THEN matchKeywords(cv, all)
  ELSE [matched |-> <<>>, missing |-> all, matchScore |-> 0]

\* The final score of CVTailor.tailorCV
CVTailor_FinalScore(e, tailoredCV, all, initialMatch, allInjected) ==
  IF e.hasKeywordExtractor THEN matchKeywords(tailoredCV, all).matchScore
  ELSE Min(98, RoundPercent(Len(initialMatch.matched) + Len(allInjected), Len(all)))

\* CVTailor.tailorCV(cvText, keywords): synchronous, the three strategies in
\* their order, each told what was matched at the start and injected so far
CVTailor_tailorCV(e, cv, kws) ==
  IF cv = "" \/ kws.all = <<>>
  THEN [NoCVTailor EXCEPT !.pc = "returned", !.tailoredCV = cv]
  ELSE
    LET p == CVTailor_parseCV(cv)
        initialMatch == CVTailor_InitialMatch(e, cv, kws.all)
        summaryResult ==
          IF p.sections["summary"] # <<>>
          THEN CVTailor_enhanceSummary(p.sections["summary"], kws.highPriority,
                                       initialMatch.matched)
          ELSE NoCVTailorStrategy
        afterSummary == summaryResult.injected
        experienceResult ==
          IF p.sections["experience"] # <<>>
          THEN CVTailor_enhanceExperience(p.sections["experience"], kws,
                                          initialMatch.matched \o afterSummary)
          ELSE NoCVTailorStrategy
        afterExperience == afterSummary \o experienceResult.injected
        skillsResult == CVTailor_enhanceSkills(p.sections["skills"], kws,
                                               initialMatch.matched \o afterExperience)
        allInjected == afterExperience \o skillsResult.injected
        enhancedSections ==
          [p.sections EXCEPT
             !["summary"] = IF p.sections["summary"] # <<>>
                            THEN summaryResult.lines ELSE @,
             !["experience"] = IF p.sections["experience"] # <<>>
                               THEN experienceResult.lines ELSE @,
             !["skills"] = skillsResult.lines]
        tailoredCV == CVTailor_reconstructCV(enhancedSections)
    IN  [NoCVTailor EXCEPT
           !.pc = "returned", !.parsed = p,
           !.initialMatched = initialMatch.matched,
           !.summaryResult = summaryResult,
           !.experienceResult = experienceResult,
           !.skillsResult = skillsResult,
           !.tailoredCV = tailoredCV,
           !.injectedKeywords = allInjected,
           !.matchScore = CVTailor_FinalScore(e, tailoredCV, kws.all, initialMatch,
                                              allInjected),
           !.stats = [summary |-> Len(summaryResult.injected),
                      experience |-> Len(experienceResult.injected),
                      skills |-> Len(skillsResult.injected),
                      total |-> Len(allInjected)]]

\* parseCV, reconstructCV of its sections, and the same once more
CVTailor_RoundTrip(cv) ==
  LET p == CVTailor_parseCV(cv)
      text == CVTailor_reconstructCV(p.sections)
      again == CVTailor_parseCV(text)
  IN  [NoCVTailor EXCEPT !.pc = "reparsed", !.parsed = p, !.reconstructed = text,
                         !.reparsed = again,
                         !.reconstructedAgain = CVTailor_reconstructCV(again.sections)]

(***************************************************************************)
(* Two runs in flight at once. JavaScript hands objects over by reference: *)
(* a keyword object that a caller passes to two calls of tailorCV is one   *)
(* object, which each call reads again at every stage. The runs on one     *)
(* AutoTailor95 share its fields and the loaded modules, which are the     *)
(* variables targetScore, maxKeywords and env.                             *)
(***************************************************************************)
\* One run of the pair: kind "tailorCV" is a call of TailorUniversal.tailorCV
\* on the keyword object in slot ref of the heap, kind "autoTailorTo95Plus" a
\* call of the orchestrator, whose keyword object is its own (ref 0, own)
NoPairRun ==
  [kind |-> "none", pc |-> "idle", cv |-> "", jd |-> "", ref |-> 0,
   passed |-> KeywordArray(<<>>), own |-> KeywordArray(<<>>), total |-> 0,
   initialMatch |-> NoScoreResult, tailor |-> TailorIdle,
   tailorResult |-> NoTailorResult, runResult |-> NoRunResult, error |-> ""]

\* Two runs that have not started, and no keyword objects
NoPair == [heap |-> <<>>, runs |-> <<NoPairRun, NoPairRun>>, overlapped |-> FALSE]

\* What a stage of tailorCV sees when it reads `keywords` and `keywordList`
\* again: the object as it is now
ReadThroughReference(t, obj) ==
  [t EXCEPT !.kw = obj, !.keywordList = KeywordListOf(obj)]

\* The continuation of tailorCV after the await it is suspended at
TailorResume(t) ==
  IF t.pc = "parsed" THEN TailorAfterParse(t)
  ELSE IF t.pc = "summary" THEN TailorSummary(t)
  ELSE IF t.pc = "experience" THEN TailorExperience(t)
  ELSE TailorSkills(t)

\* A call of tailorCV that settled ends the run of kind "tailorCV"
SettleTailorCV(r, t) ==
  IF r.kind # "tailorCV" THEN [r EXCEPT !.pc = "tailoring", !.tailor = t]
  ELSE IF t.pc = "returned"
  THEN [r EXCEPT !.pc = "done", !.tailor = t, !.tailorResult = t.result]
  ELSE IF t.pc = "threw"
  THEN [r EXCEPT !.pc = "failed", !.tailor = t, !.error = t.error]
  ELSE [r EXCEPT !.pc = "tailoring", !.tailor = t]

\* TailorUniversal.tailorCV(cv, obj, { targetScore }) up to its first await
PairCallTailor(cv, ref, obj, optTargetScore, e) ==
  LET t == TailorStart(cv, obj, optTargetScore, e)
  IN  [run |-> SettleTailorCV([NoPairRun EXCEPT !.kind = "tailorCV", !.cv = cv,
                                                !.ref = ref, !.passed = obj], t),
       obj |-> t.kw]

\* autoTailorTo95Plus(jd, cv) up to `await this.delay(300)`, its callbacks
\* returning normally
PairCallAuto(jd, cv, optMaxKeywords, e) ==
  LET r0 == [NoPairRun EXCEPT !.kind = "autoTailorTo95Plus", !.cv = cv, !.jd = jd]
  IN  IF InputsMissing(jd, cv)
      THEN [run |-> [r0 EXCEPT !.pc = "failed", !.error = INPUT_ERROR],
            obj |-> r0.own]
      ELSE LET ks == extractJobKeywords(e, jd, InstanceMaxKeywords(optMaxKeywords))
           IN  IF ExtractionEmpty(ks)
               THEN [run |-> [r0 EXCEPT !.pc = "failed", !.error = EXTRACTION_ERROR],
                     obj |-> r0.own]
               ELSE [run |-> [r0 EXCEPT !.pc = "delay",
                                        !.passed = KeywordSetArg(ks),
                                        !.own = KeywordSetArg(ks),
                                        !.total = ks.total,
                                        !.initialMatch = calculateInitialMatch(e, cv, ks)],
                     obj |-> KeywordSetArg(ks)]

\* The keyword set the orchestrator holds, read from its object
KeywordSetOf(obj, total) ==
  [all |-> obj.all, highPriority |-> obj.highPriority,
   mediumPriority |-> obj.mediumPriority, lowPriority |-> obj.lowPriority,
   total |-> total]

\* One continuation of run r, obj being the keyword object it refers to: the
\* run after it and the object as the continuation leaves it
PairStep(r, obj, optTargetScore, e) ==
  IF r.pc = "delay"
  THEN LET t == TailorStart(r.cv, obj, InstanceTargetScore(optTargetScore), e)
       IN  [run |-> SettleTailorCV(r, t), obj |-> t.kw]
  ELSE IF r.tailor.pc \in {"parsed", "summary", "experience", "skills"}
  THEN LET t == TailorResume(ReadThroughReference(r.tailor, obj))
       IN  [run |-> SettleTailorCV(r, t), obj |-> t.kw]
  ELSE IF r.tailor.pc = "threw"
  THEN [run |-> [r EXCEPT !.pc = "failed", !.error = r.tailor.error], obj |-> obj]
  ELSE LET ks == KeywordSetOf(obj, r.total)
           finalMatch == calculateFinalMatch(e, r.tailor.result.tailoredCV, ks)
       IN  [run |-> [r EXCEPT !.pc = "done",
                              !.runResult = RunResult(r.cv, ks, r.initialMatch,
                                                      finalMatch, r.tailor.result)],
            obj |-> obj]

\* A run taken from out (a run and its object) to its end with nothing else
\* in flight
RECURSIVE PairToEnd(_, _, _)
PairToEnd(out, optTargetScore, e) ==
  IF out.run.pc \in {"done", "failed"} THEN out
  ELSE PairToEnd(PairStep(out.run, out.obj, optTargetScore, e), optTargetScore, e)

\* The run r when it runs alone on the inputs it was called with
RunAlone(r, optTargetScore, optMaxKeywords, e) ==
  PairToEnd(IF r.kind = "tailorCV"
            THEN PairCallTailor(r.cv, r.ref, r.passed, optTargetScore, e)
            ELSE PairCallAuto(r.jd, r.cv, optMaxKeywords, e),
            optTargetScore, e)

(***************************************************************************)
(* Inputs                                                                  *)
(***************************************************************************)
MaxKeywordsBound == 6
MaxListLen == 3
LongListLen == 8

\* A job description of 42 distinct terms, enough to reach the caps of the
\* high and the medium tier
LongJobDescription ==
  "python java javascript typescript ruby rust swift kotlin scala php perl "
  \o "matlab julia react angular vue node express django flask spring "
  \o "tensorflow pytorch keras pandas numpy spark sql mysql postgresql mongodb "
  \o "redis cassandra oracle snowflake bigquery redshift dynamodb firebase "
  \o "aws azure gcp"

\* Limits around the sizes at which the tier caps start to bind
LargeLimits == {28, 29, 37, 38, 60}

JobDescriptions ==
  {"",
   "the and of with",
   "Looking for a Python developer with AWS and Docker experience.",
   "Machine learning engineer: python, sql, machine learning and data science.",
   "<b>Java</b> and JavaScript; C++ or C# with SQL. Java, Java!",
   "Remote work: agile scrum team, python3 and aws. Agile!",
   "Run postgres15 on AWS cloud.",
   "Stakeholder management for stakeholder and stakeholder",
   LongJobDescription,
   "Senior React developer. React, Node, TypeScript, GraphQL, Docker, Kubernetes, AWS, SQL."}

MatchTexts ==
  {"",
   "Java and SQL developer",
   "JavaScript developer, mysql",
   "Skilled in C++, python3 and go.",
   "Machine learning with PYTHON; c++11"}

KeywordVocabulary == {"java", "sql", "Python", "c++", "machine learning", "go"}

SeqsUpTo(S, n) == UNION {[1..k -> S] : k \in 0..n}

KeywordLists ==
  SeqsUpTo(KeywordVocabulary, MaxListLen) \cup [1..LongListLen -> {"java", "go"}]

\* options.targetScore of a call or of the constructor; 0: not given
TargetScores == {0, 50}

\* Resume texts: a header, then a summary, an experience and a skills block
\* joined by blank lines
CVSummaries ==
  {"",
   "Summary\nBackend engineer with AWS. Builds services.",
   "Profile: Java developer"}

CVExperiences ==
  {"",
   "Experience\n- Built APIs with Java\n- Led a team.",
   "Work History\n@ Designed and deployed scalable data pipelines, dashboards and alerts.\nAcme Corp, 2020"}

CVSkills ==
  {"",
   "Skills\nAWS Java SQL",
   "Technical Skills: Python, Docker, Git"}

NonEmpty(parts) == LET Filled(x) == x # "" IN SelectSeq(parts, Filled)

ComposedCVs ==
  {Join(NonEmpty(<<"Jane Doe", su, ex, sk>>), "\n\n") :
     su \in CVSummaries, ex \in CVExperiences, sk \in CVSkills}

\* The empty text, a first line that is indented, a section header that
\* occurs twice, a line of prose that starts with a section word
SpecialCVs ==
  {"",
   "  Experienced Engineer\nSkills\nAWS Java SQL",
   "Skills\nAWS, Java\n\nExperience\n- Built tools\n\nSkills\nDocker",
   "Summary\nExperienced Python developer.\n\nExperience\n- Led a team of five"}

CVTexts == ComposedCVs \cup SpecialCVs

\* Texts for parseCV: the blocks above under three headers, the second of
\* them indented, and with a last block that opens a section again
CVHeaders == {"", "Jane Doe", "  Experienced Engineer"}

CVLastBlocks == {"", "Skills\nDocker", "Education\nBSc Computer Science"}

ParseTexts ==
  {Join(NonEmpty(<<he, su, ex, sk, la>>), "\n\n") :
     he \in CVHeaders, su \in CVSummaries, ex \in CVExperiences,
     sk \in CVSkills, la \in CVLastBlocks}
  \cup SpecialCVs

\* Texts for the section-array engine: the resumes above, bullets that hold a
\* '.' or ',' without ending in one, numbered and starred bullets, a resume
\* without skills section, sections out of the standard order
SectionSpecialCVs ==
  {"Jane Doe\n\nSUMMARY\nEngineer who builds reliable backend services.\n\nEXPERIENCE\n- Built Node.js services\n- Improved latency, throughput and uptime\n* Led a team.\n1. Shipped the billing platform,\n\nSKILLS\nAWS, Java",
   "Jane Doe\n\nSummary\nEngineer who builds reliable backend services.\nShips weekly.\n\nExperience\n- Built tools",
   "SKILLS\nJava\n\nEXPERIENCE\n- Built tools.\n\nPROFILE:\nBackend engineer",
   "Jane Doe"}

SectionCVs == CVTexts \cup SectionSpecialCVs

\* Keyword sets handed to tailorCV: a ranked list cut into three tiers, the
\* short lists at every pair of cuts, the long one at the cuts of the extractors
TailorKeywordLists == {<<>>, <<"python">>, <<"docker", "python", "aws">>}

LongKeywordList == <<"java", "sql", "python", "aws", "docker">>

Tiering(list, highCount, mediumCount) ==
  [all |-> list,
   highPriority |-> SliceSeq(list, 0, highCount),
   mediumPriority |-> SliceSeq(list, highCount, highCount + mediumCount),
   lowPriority |-> SliceSeq(list, highCount + mediumCount, Len(list)),
   total |-> Len(list)]

Tierings(list) ==
  {Tiering(list, cut[1], cut[2] - cut[1]) :
     cut \in {c \in (0..Len(list)) \X (0..Len(list)) : c[1] <= c[2]}}

TailorKeywordSets ==
  UNION {Tierings(list) : list \in TailorKeywordLists}
  \cup {Tiering(LongKeywordList, 2, 2), Tiering(LongKeywordList, 3, 2),
        Tiering(LongKeywordList, 1, 3)}

\* Resumes with sections that no strategy targets, between the targeted
\* ones and out of the order of SECTION_PATTERNS; one opens Education twice
FrameCVs ==
  {"Jane Doe\n\nProjects\nOpen source CLI\n\nSummary\nBackend engineer with AWS. Builds services.\n\nEducation\nBSc Computer Science\n\nExperience\n- Built APIs with Java\n- Led a team.\n\nCertifications\nAWS Certified Developer\n\nSkills\nAWS Java SQL",
   "Jane Doe\n\nEducation\nBSc Computer Science\n\nProjects\nOpen source CLI in Python\n\nEducation\nMSc Data Science"}

\* A keyword list and a resume long enough to reach the caps of the three
\* strategies: more high-priority keywords than the summary takes, more
\* bullets and more candidates than the experience strategy takes, more
\* keywords left than the skills strategy takes
ManyKeywordCount == 48
ManyBulletCount == 22

ManyKeywords == [i \in 1..ManyKeywordCount |-> "tool" \o ToString(i)]

ManyKeywordSet == Tiering(ManyKeywords, 9, 23)

ManyBulletsCV ==
  "Jane Doe\n\nSummary\nBackend engineer with AWS. Builds services.\n\nExperience\n"
  \o Join([i \in 1..ManyBulletCount |-> "- Delivered project " \o ToString(i)], "\n")

NoMatch == [matched |-> <<>>, missing |-> <<>>, matchScore |-> 0, matchCount |-> 0]

args == <<jobDescription, cvText, maxKeywords, targetScore, kwInput, env>>

(***************************************************************************)
(* Keyword extraction: the three extraction entry points on one input      *)
(***************************************************************************)
InitExtract ==
  /\ jobDescription \in JobDescriptions
  /\ maxKeywords \in (0..MaxKeywordsBound) \cup LargeLimits
  /\ env \in Envs
  /\ op = "none" /\ pc = "idle"
  /\ cvText = "" /\ kwInput = <<>> /\ targetScore = 0
  /\ keywords = EmptyKeywordSet /\ matchResult = NoMatch
  /\ parsed = NoParse /\ reparsed = NoParse
  /\ tailor = TailorIdle /\ run = NoRun /\ service = NoService
  /\ cvTailor = NoCVTailor /\ pair = NoPair /\ timers = 0

CallExtractKeywords ==
  /\ pc = "idle"
  /\ keywords' = extractKeywords(jobDescription, maxKeywords)
  /\ op' = "extractKeywords" /\ pc' = "returned"
  /\ UNCHANGED <<args, service, cvTailor, pair, timers, matchResult, parsed, reparsed, tailor, run>>

CallExtractJobKeywords ==
  /\ pc = "idle"
  /\ keywords' = extractJobKeywords(env, jobDescription, InstanceMaxKeywords(maxKeywords))
  /\ op' = "extractJobKeywords" /\ pc' = "returned"
  /\ UNCHANGED <<args, service, cvTailor, pair, timers, matchResult, parsed, reparsed, tailor, run>>

CallSimpleKeywordExtraction ==
  /\ pc = "idle"
  /\ keywords' = simpleKeywordExtraction(jobDescription, InstanceMaxKeywords(maxKeywords))
  /\ op' = "simpleKeywordExtraction" /\ pc' = "returned"
  /\ UNCHANGED <<args, service, cvTailor, pair, timers, matchResult, parsed, reparsed, tailor, run>>

NextExtract ==
  \/ CallExtractKeywords
  \/ CallExtractJobKeywords
  \/ CallSimpleKeywordExtraction

SpecExtract == InitExtract /\ [][NextExtract]_vars

(***************************************************************************)
(* Matching: KeywordExtractor.matchKeywords on one input                   *)
(***************************************************************************)
InitMatch ==
  /\ cvText \in MatchTexts
  /\ kwInput \in KeywordLists
  /\ op = "none" /\ pc = "idle"
  /\ jobDescription = "" /\ maxKeywords = 0 /\ env = NoEnv /\ targetScore = 0
  /\ keywords = EmptyKeywordSet /\ matchResult = NoMatch
  /\ parsed = NoParse /\ reparsed = NoParse
  /\ tailor = TailorIdle /\ run = NoRun /\ service = NoService
  /\ cvTailor = NoCVTailor /\ pair = NoPair /\ timers = 0

CallMatchKeywords ==
  /\ pc = "idle"
  /\ matchResult' = matchKeywords(cvText, kwInput)
  /\ op' = "matchKeywords" /\ pc' = "returned"
  /\ UNCHANGED <<args, service, cvTailor, pair, timers, keywords, parsed, reparsed, tailor, run>>

\* KeywordChips.renderKeywordChips(container, kwInput, cvText)
CallRenderKeywordChips ==
  /\ pc = "idle"
  /\ matchResult' = renderKeywordChips(kwInput, cvText)
  /\ op' = "renderKeywordChips" /\ pc' = "returned"
  /\ UNCHANGED <<args, service, cvTailor, pair, timers, keywords, parsed, reparsed, tailor, run>>

\* AutoTailor95.calculateInitialMatch(cvText, { all: kwInput }) with neither
\* ReliableExtractor nor DynamicScore loaded
CallCalculateInitialMatch ==
  /\ pc = "idle"
  /\ matchResult' = calculateInitialMatch(NoEnv, cvText, KeywordArray(kwInput))
  /\ op' = "calculateInitialMatch" /\ pc' = "returned"
  /\ UNCHANGED <<args, service, cvTailor, pair, timers, keywords, parsed, reparsed, tailor, run>>

\* TailorUniversal.enhanceSkills(cvText, kwInput): the keywords it reports as
\* injected are those its already-present check found missing
CallEnhanceSkills ==
  /\ pc = "idle"
  /\ LET r == enhanceSkills(cvText, kwInput)
     IN  matchResult' = [matched |-> NotIn(kwInput, r.injected),
                         missing |-> r.injected,
                         matchCount |-> Len(kwInput) - Len(r.injected),
                         enhanced |-> r.enhanced]
  /\ op' = "enhanceSkills" /\ pc' = "returned"
  /\ UNCHANGED <<args, service, cvTailor, pair, timers, keywords, parsed, reparsed, tailor, run>>

NextMatch ==
  \/ CallMatchKeywords
  \/ CallRenderKeywordChips
  \/ CallCalculateInitialMatch
  \/ CallEnhanceSkills

SpecMatch == InitMatch /\ [][NextMatch]_vars

(***************************************************************************)
(* TailorUniversal.parseCV and reconstructCV on one text                   *)
(***************************************************************************)
InitParse ==
  /\ cvText \in ParseTexts
  /\ op = "none" /\ pc = "idle"
  /\ jobDescription = "" /\ maxKeywords = 0 /\ kwInput = <<>>
  /\ targetScore = 0 /\ env = NoEnv
  /\ keywords = EmptyKeywordSet /\ matchResult = NoMatch
  /\ parsed = NoParse /\ reparsed = NoParse
  /\ tailor = TailorIdle /\ run = NoRun /\ service = NoService
  /\ cvTailor = NoCVTailor /\ pair = NoPair /\ timers = 0

\* parsed = parseCV(cvText)
CallParseCV ==
  /\ pc = "idle"
  /\ parsed' = parseCV(cvText)
  /\ op' = "parseCV" /\ pc' = "parsed"
  /\ UNCHANGED <<args, service, cvTailor, pair, timers, keywords, matchResult, reparsed, tailor, run>>

\* parseCV(reconstructCV(parsed, { ...parsed.sections }))
CallReconstructAndParse ==
  /\ pc = "parsed"
  /\ reparsed' = parseCV(reconstructCV(parsed, parsed.sections))
  /\ op' = "reconstructCV" /\ pc' = "returned"
  /\ UNCHANGED <<args, service, cvTailor, pair, timers, keywords, matchResult, parsed, tailor, run>>

NextParse ==
  \/ CallParseCV
  \/ CallReconstructAndParse

SpecParse == InitParse /\ [][NextParse]_vars

(***************************************************************************)
(* TailorUniversal.tailorCV on one resume, called with a KeywordSet or     *)
(* with an array                                                           *)
(***************************************************************************)
InitTailor ==
  /\ cvText \in CVTexts \cup {ManyBulletsCV} \cup FrameCVs
  /\ keywords \in TailorKeywordSets \cup {ManyKeywordSet}
  /\ targetScore \in TargetScores
  /\ env \in {e \in Envs : e.hasKeywordExtractor}
  /\ op = "none" /\ pc = "idle"
  /\ jobDescription = "" /\ maxKeywords = 0 /\ kwInput = keywords.all
  /\ matchResult = NoMatch
  /\ parsed = NoParse /\ reparsed = NoParse
  /\ tailor = TailorIdle /\ run = NoRun /\ service = NoService
  /\ cvTailor = NoCVTailor /\ pair = NoPair /\ timers = 0

\* TailorUniversal.tailorCV(cvText, keywords, { targetScore }) up to its
\* first await, its return or its throw
CallTailorCV ==
  /\ pc = "idle"
  /\ tailor' = TailorStart(cvText, KeywordSetArg(keywords), targetScore, env)
  /\ op' = "tailorCV" /\ pc' = "tailoring"
  /\ UNCHANGED <<args, service, cvTailor, pair, timers, keywords, matchResult, parsed, reparsed, run>>

\* The same call with the array kwInput
CallTailorCVWithArray ==
  /\ pc = "idle"
  /\ tailor' = TailorStart(cvText, KeywordArray(kwInput), targetScore, env)
  /\ op' = "tailorCV" /\ pc' = "tailoring"
  /\ UNCHANGED <<args, service, cvTailor, pair, timers, keywords, matchResult, parsed, reparsed, run>>

\* The same call with the remote service's breakdown of the keywords kwInput
CallTailorCVWithRemoteBreakdown ==
  /\ pc = "idle"
  /\ tailor' = TailorStart(cvText, RemoteBreakdownArg(kwInput), targetScore, env)
  /\ op' = "tailorCV" /\ pc' = "tailoring"
  /\ UNCHANGED <<args, service, cvTailor, pair, timers, keywords, matchResult, parsed, reparsed, run>>

\* The continuations of a suspended tailorCV, one per await
ResumeAfterParse ==
  /\ pc = "tailoring" /\ tailor.pc = "parsed"
  /\ tailor' = TailorAfterParse(tailor)
  /\ timers' = timers + 1
  /\ UNCHANGED <<args, service, cvTailor, pair, op, pc, keywords, matchResult, parsed, reparsed, run>>

ResumeSummary ==
  /\ pc = "tailoring" /\ tailor.pc = "summary"
  /\ tailor' = TailorSummary(tailor)
  /\ timers' = timers + 1
  /\ UNCHANGED <<args, service, cvTailor, pair, op, pc, keywords, matchResult, parsed, reparsed, run>>

ResumeExperience ==
  /\ pc = "tailoring" /\ tailor.pc = "experience"
  /\ tailor' = TailorExperience(tailor)
  /\ timers' = timers + 1
  /\ UNCHANGED <<args, service, cvTailor, pair, op, pc, keywords, matchResult, parsed, reparsed, run>>

ResumeSkills ==
  /\ pc = "tailoring" /\ tailor.pc = "skills"
  /\ tailor' = TailorSkills(tailor)
  /\ timers' = timers + 1
  /\ UNCHANGED <<args, service, cvTailor, pair, op, pc, keywords, matchResult, parsed, reparsed, run>>

NextTailor ==
  \/ CallTailorCV
  \/ CallTailorCVWithArray
  \/ CallTailorCVWithRemoteBreakdown
  \/ ResumeAfterParse
  \/ ResumeSummary
  \/ ResumeExperience
  \/ ResumeSkills

SpecTailor == InitTailor /\ [][NextTailor]_vars

(***************************************************************************)
(* The section-array engine: CVTailor.tailorCV(cvText, keywords), and      *)
(* CVTailor.parseCV / reconstructCV applied twice, on one resume           *)
(***************************************************************************)
InitSections ==
  /\ cvText \in SectionCVs
  /\ keywords \in TailorKeywordSets
  /\ env \in {e \in Envs : ~e.hasReliableExtractor}
  /\ op = "none" /\ pc = "idle"
  /\ jobDescription = "" /\ maxKeywords = 0 /\ kwInput = keywords.all
  /\ targetScore = 0
  /\ matchResult = NoMatch
  /\ parsed = NoParse /\ reparsed = NoParse
  /\ tailor = TailorIdle /\ run = NoRun /\ service = NoService
  /\ cvTailor = NoCVTailor /\ pair = NoPair /\ timers = 0

CallCVTailorTailorCV ==
  /\ pc = "idle"
  /\ cvTailor' = CVTailor_tailorCV(env, cvText, keywords)
  /\ op' = "CVTailor.tailorCV" /\ pc' = "returned"
  /\ UNCHANGED <<args, service, pair, timers, keywords, matchResult, parsed, reparsed, tailor, run>>

CallCVTailorRoundTrip ==
  /\ pc = "idle"
  /\ cvTailor' = CVTailor_RoundTrip(cvText)
  /\ op' = "CVTailor.reconstructCV" /\ pc' = "returned"
  /\ UNCHANGED <<args, service, pair, timers, keywords, matchResult, parsed, reparsed, tailor, run>>

NextSections ==
  \/ CallCVTailorTailorCV
  \/ CallCVTailorRoundTrip

SpecSections == InitSections /\ [][NextSections]_vars

(***************************************************************************)
(* Two runs on one AutoTailor95 and one TailorUniversal, interleaved at    *)
(* their awaits: a run is called while the other is suspended or settled,  *)
(* and the continuations of the two run in any order                       *)
(***************************************************************************)
PairCVs ==
  {"Jane Doe\n\nSummary\nBackend engineer with AWS. Builds services.\n\nExperience\n- Built APIs with Java\n- Led a team.\n\nSkills\nAWS Java SQL",
   "Jane Doe\n\nSkills\nAWS Java SQL"}

PairJobDescriptions ==
  {"", "Looking for a Python developer with AWS and Docker experience."}

\* The keyword objects the caller holds and may hand to one call or to both
PairHeaps ==
  {<<KeywordSetArg(Tiering(LongKeywordList, 2, 2)),
     KeywordArray(<<"docker", "python", "aws">>)>>,
   <<KeywordSetArg(Tiering(<<"docker", "python", "aws">>, 1, 1)),
     RemoteBreakdownArg(<<"python">>)>>}

InitPair ==
  /\ pair \in {[heap |-> h, runs |-> NoPair.runs, overlapped |-> FALSE] : h \in PairHeaps}
  /\ env \in {e \in Envs : e.hasKeywordExtractor}
  /\ targetScore \in TargetScores
  /\ maxKeywords = 0
  /\ jobDescription = "" /\ cvText = "" /\ kwInput = <<>>
  /\ op = "none" /\ pc = "idle"
  /\ keywords = EmptyKeywordSet /\ matchResult = NoMatch
  /\ parsed = NoParse /\ reparsed = NoParse
  /\ tailor = TailorIdle /\ run = NoRun /\ service = NoService
  /\ cvTailor = NoCVTailor /\ timers = 0

\* The keyword object run r refers to
ObjectOf(r) == IF r.ref = 0 THEN r.own ELSE pair.heap[r.ref]

InFlight(r) == r.pc \in {"delay", "tailoring"}

\* Run i becomes out.run and its keyword object out.obj
Put(i, out) ==
  [pair EXCEPT
     !.runs[i] = IF out.run.ref = 0 THEN [out.run EXCEPT !.own = out.obj]
                 ELSE out.run,
     !.heap = IF out.run.ref = 0 THEN @ ELSE [@ EXCEPT ![out.run.ref] = out.obj],
     !.overlapped = @ \/ (InFlight(pair.runs[i]) /\ InFlight(pair.runs[3 - i]))]

PairUnchanged ==
  UNCHANGED <<args, service, cvTailor, op, pc, keywords, matchResult, parsed,
              reparsed, tailor, run>>

\* A caller calls TailorUniversal.tailorCV on one of its keyword objects
PairCallTailorCV(i) ==
  /\ pair.runs[i].pc = "idle"
  /\ \E cv \in PairCVs : \E ref \in DOMAIN pair.heap :
       pair' = Put(i, PairCallTailor(cv, ref, pair.heap[ref], targetScore, env))
  /\ UNCHANGED timers
  /\ PairUnchanged

\* A caller calls autoTailorTo95Plus
PairCallAutoTailor(i) ==
  /\ pair.runs[i].pc = "idle"
  /\ \E cv \in PairCVs : \E jd \in PairJobDescriptions :
       pair' = Put(i, PairCallAuto(jd, cv, maxKeywords, env))
  /\ UNCHANGED timers
  /\ PairUnchanged

\* The timer run i waits for fires, or the call of tailorCV it awaits has settled
PairResume(i) ==
  /\ InFlight(pair.runs[i])
  /\ pair' = Put(i, PairStep(pair.runs[i], ObjectOf(pair.runs[i]), targetScore, env))
  /\ timers' = IF pair.runs[i].pc = "tailoring"
                  /\ pair.runs[i].tailor.pc \in {"returned", "threw"}
               THEN timers ELSE timers + 1
  /\ PairUnchanged

NextPair ==
  \E i \in 1..2 :
    \/ PairCallTailorCV(i)
    \/ PairCallAutoTailor(i)
    \/ PairResume(i)

SpecPair == InitPair /\ [][NextPair]_vars

(***************************************************************************)
(* The orchestrator: one run of autoTailorTo95Plus(jobDescription, cvText) *)
(* on an AutoTailor95 built with { targetScore, maxKeywords } and          *)
(* caller-supplied callbacks, any of whose invocations may throw           *)
(***************************************************************************)
RunJobDescriptions ==
  {"",
   "the and of with",
   "Looking for a Python developer with AWS and Docker experience.",
   "AWS, Java, SQL, Docker",
   "Machine learning engineer: python, sql, machine learning and data science."}

RunCVs ==
  {Join(NonEmpty(<<"Jane Doe", su, ex, sk>>), "\n\n") :
     su \in CVSummaries \ {""}, ex \in CVExperiences \ {""}, sk \in CVSkills}
  \cup SpecialCVs \cup {"Jane Doe\n\nSkills\nAWS Java SQL"}

Init ==
  /\ jobDescription \in RunJobDescriptions
  /\ cvText \in RunCVs
  /\ maxKeywords \in {0, MaxKeywordsBound}
  /\ targetScore \in TargetScores
  /\ env \in Envs
  /\ op = "none" /\ pc = "idle"
  /\ kwInput = <<>>
  /\ keywords = EmptyKeywordSet /\ matchResult = NoMatch
  /\ parsed = NoParse /\ reparsed = NoParse
  /\ tailor = TailorIdle /\ run = NoRun /\ service = NoService
  /\ cvTailor = NoCVTailor /\ pair = NoPair /\ timers = 0

\* A callback threw: the promise of the run is rejected
Fail(steps, error) ==
  /\ run' = [run EXCEPT !.steps = run.steps \o steps, !.error = error]
  /\ pc' = "failed"

\* The call, up to `await this.extractJobKeywords(jobDescription)`
AutoTailorTo95Plus ==
  /\ pc = "idle"
  /\ op' = "autoTailorTo95Plus"
  /\ IF InputsMissing(jobDescription, cvText)
     THEN /\ Fail(<<>>, INPUT_ERROR)
          /\ UNCHANGED keywords
     ELSE \E throwAt \in 0..1 :
            IF throwAt # 0
            THEN /\ Fail(Executed(ExtractionSteps, throwAt), CALLBACK_ERROR)
                 /\ UNCHANGED keywords
            ELSE /\ run' = [run EXCEPT !.steps = ExtractionSteps]
                 /\ keywords' = extractJobKeywords(env, jobDescription,
                                                   InstanceMaxKeywords(maxKeywords))
                 /\ pc' = "extracting"
  /\ UNCHANGED <<args, service, cvTailor, pair, timers, matchResult, parsed, reparsed, tailor>>

\* From the extracted keywords to `await this.delay(300)`
ScoreInitial ==
  /\ pc = "extracting"
  /\ IF ExtractionEmpty(keywords)
     THEN Fail(<<>>, EXTRACTION_ERROR)
     ELSE \E initialMatch \in {calculateInitialMatch(env, cvText, keywords)} :
              \E throwAt \in 0..3 :
                LET done == Executed(InitialScoringSteps(initialMatch), throwAt)
                    scored == IF Happened(done, "calculateInitialMatch")
                              THEN initialMatch ELSE run.initialMatch
                IN  IF throwAt # 0
                    THEN /\ run' = [run EXCEPT !.steps = run.steps \o done,
                                               !.initialMatch = scored,
                                               !.error = CALLBACK_ERROR]
                         /\ pc' = "failed"
                    ELSE /\ run' = [run EXCEPT !.steps = run.steps \o done,
                                               !.initialMatch = scored]
                         /\ pc' = "delay"
  /\ UNCHANGED <<args, service, cvTailor, pair, timers, op, keywords, matchResult, parsed, reparsed, tailor>>

\* After the delay: progress 50 and the call of tailorCVForTarget, which runs
\* TailorUniversal.tailorCV up to its first await
StartTailoring ==
  /\ pc = "delay"
  /\ LET steps == TailoringSteps(run.initialMatch, InstanceTargetScore(targetScore))
     IN  \E throwAt \in 0..1 :
           IF throwAt # 0
           THEN /\ Fail(Executed(steps, throwAt), CALLBACK_ERROR)
                /\ UNCHANGED tailor
           ELSE /\ run' = [run EXCEPT !.steps = run.steps \o steps]
                /\ tailor' = TailorStart(cvText, KeywordSetArg(keywords),
                                         InstanceTargetScore(targetScore), env)
                /\ pc' = "tailoring"
  /\ timers' = timers + 1
  /\ UNCHANGED <<args, service, cvTailor, pair, op, keywords, matchResult, parsed, reparsed>>

\* After tailorCV settled: the final match, the callbacks and the result
ScoreFinal ==
  /\ pc = "tailoring" /\ tailor.pc \in {"returned", "threw"}
  /\ op = "autoTailorTo95Plus"
  /\ IF tailor.pc = "threw"
     THEN Fail(<<>>, tailor.error)
     ELSE \E finalMatch \in {calculateFinalMatch(env, tailor.result.tailoredCV,
                                                  keywords)} :
              \E throwAt \in 0..4 :
                LET done == Executed(FinalScoringSteps(finalMatch), throwAt)
                    scored == IF Happened(done, "calculateFinalMatch")
                              THEN finalMatch ELSE run.finalMatch
                IN  IF throwAt # 0
                    THEN /\ run' = [run EXCEPT !.steps = run.steps \o done,
                                               !.finalMatch = scored,
                                               !.error = CALLBACK_ERROR]
                         /\ pc' = "failed"
                    ELSE /\ run' = [run EXCEPT
                                      !.steps = run.steps \o done,
                                      !.finalMatch = scored,
                                      !.returned = TRUE,
                                      !.result = RunResult(cvText, keywords,
                                                           run.initialMatch, finalMatch,
                                                           tailor.result)]
                         /\ pc' = "done"
  /\ UNCHANGED <<args, service, cvTailor, pair, timers, op, keywords, matchResult, parsed, reparsed, tailor>>

Next ==
  \/ AutoTailorTo95Plus
  \/ ScoreInitial
  \/ StartTailoring
  \/ ResumeAfterParse
  \/ ResumeSummary
  \/ ResumeExperience
  \/ ResumeSkills
  \/ ScoreFinal

Spec == Init /\ [][Next]_vars

\* A timer that was set fires: the delay of the orchestrator and the four
\* yields of tailorCV are setTimeout calls, whose callbacks the steps above run
TimerFires ==
  /\ \/ pc = "delay"
     \/ pc = "tailoring" /\ tailor.pc \in {"parsed", "summary", "experience", "skills"}
  /\ timers' = timers + 1

\* The same runs under fair scheduling: a timer that was set fires, and the
\* continuation of an await on a settled promise runs
FairSpec ==
  /\ Spec
  /\ WF_vars(ScoreInitial)
  /\ WF_timers(TimerFires)
  /\ WF_vars(ScoreFinal)

(***************************************************************************)
(* Properties of keyword extraction (SpecExtract)                          *)
(***************************************************************************)
\* The limit a call of the extraction entry point op was given: the argument
\* of extractKeywords, the instance's maxKeywords for the two methods
ExtractionLimit ==
  IF op = "extractKeywords" THEN maxKeywords ELSE InstanceMaxKeywords(maxKeywords)

Disjoint(p, q) == SeqToSet(p) \cap SeqToSet(q) = {}

KeywordSetWellFormed(ks, limit) ==
  /\ Disjoint(ks.highPriority, ks.mediumPriority)
  /\ Disjoint(ks.highPriority, ks.lowPriority)
  /\ Disjoint(ks.mediumPriority, ks.lowPriority)
  /\ ks.highPriority \o ks.mediumPriority \o ks.lowPriority = ks.all
  /\ NoDuplicates(ks.all)
  /\ Len(ks.all) <= limit
  /\ ks.total = Len(ks.all)

\* C1: every KeywordSet returned by extractKeywords, by the fallbacks of
\* extractJobKeywords (ReliableExtractor not loaded) or by
\* simpleKeywordExtraction has pairwise disjoint tiers whose concatenation
\* high, medium, low is `all`, no duplicate in `all`, at most maxKeywords
\* entries in `all`, and total = len(all).
C1_KeywordSetPartition ==
  (/\ pc = "returned"
   /\ op \in {"extractKeywords", "extractJobKeywords", "simpleKeywordExtraction"}
   /\ op = "extractJobKeywords" => ~env.hasReliableExtractor)
    => KeywordSetWellFormed(keywords, ExtractionLimit)

\* A returned set cut at the limit with all three tiers populated
C1_Witness ==
  /\ pc = "returned" /\ op = "extractKeywords"
  /\ maxKeywords > 0 /\ Len(keywords.all) = maxKeywords
  /\ keywords.highPriority # <<>>
  /\ keywords.mediumPriority # <<>>
  /\ keywords.lowPriority # <<>>

(***************************************************************************)
(* Properties of matching (SpecMatch)                                      *)
(***************************************************************************)
\* s is x = 100 * a / b rounded to the nearest integer, halves up
IsRounded(s, a, b) == 2 * b * s <= 200 * a + b /\ 200 * a + b < 2 * b * (s + 1)

C3_MatchedMissingPartition ==
  (pc = "returned" /\ op = "matchKeywords") =>
    /\ Disjoint(matchResult.matched, matchResult.missing)
    /\ SeqToSet(matchResult.matched) \cup SeqToSet(matchResult.missing)
         = SeqToSet(kwInput)

(***************************************************************************)
(* Properties of TailorUniversal (SpecTailor, SpecParse)                   *)
(***************************************************************************)
\* C5: in one TailorUniversal.tailorCV run over a KeywordSet the keywords
\* injected by the summary, the experience and the skills strategy are
\* pairwise disjoint lists.
C5_InjectedListsDisjoint ==
  (op = "tailorCV" /\ tailor.kw.shape = "KeywordSet") =>
    /\ Disjoint(tailor.summaryInjected, tailor.experienceInjected)
    /\ Disjoint(tailor.summaryInjected, tailor.skillsInjected)
    /\ Disjoint(tailor.experienceInjected, tailor.skillsInjected)

\* A finished run in which each of the three strategies injected something
C5_Witness ==
  /\ op = "tailorCV" /\ tailor.kw.shape = "KeywordSet" /\ tailor.pc = "returned"
  /\ tailor.summaryInjected # <<>>
  /\ tailor.experienceInjected # <<>>
  /\ tailor.skillsInjected # <<>>

\* C6: for any resume text, parseCV of reconstructCV(parseCV(text)) has the
\* sectionOrder and the section contents of parseCV(text).
C6_ParseReconstructIdempotent ==
  (op = "reconstructCV" /\ pc = "returned") =>
    /\ reparsed.sectionOrder = parsed.sectionOrder
    /\ reparsed.header = parsed.header
    /\ \A name \in SeqToSet(parsed.sectionOrder) :
         GetSection(reparsed.sections, name) = GetSection(parsed.sections, name)

(***************************************************************************)
(* Properties of the orchestrator (Spec)                                   *)
(***************************************************************************)
StepNames(steps) == [i \in DOMAIN steps |-> steps[i].name]

ProgressValues(steps) ==
  LET IsProgress(st) == st.name = "onProgress"
      reports == SelectSeq(steps, IsProgress)
  IN  [i \in DOMAIN reports |-> reports[i].value]

IsPrefix(p, q) == Len(p) <= Len(q) /\ p = SubSeq(q, 1, Len(p))

CountOfStep(steps, name) ==
  LET IsIt(st) == st.name = name IN Len(SelectSeq(steps, IsIt))

\* C4: after tailoring through the orchestrator with initialScore below the
\* target score and at least one keyword missing, finalScore >= initialScore
\* and no keyword matched in the original text is missing in the tailored
\* text.
C4_TailoringNeverLowersScore ==
  (/\ pc = "done"
   /\ run.result.initialScore < InstanceTargetScore(targetScore)
   /\ run.initialMatch.missing # <<>>)
    => /\ run.result.finalScore >= run.result.initialScore
       /\ SeqToSet(run.initialMatch.matched) \subseteq SeqToSet(run.finalMatch.matched)

\* C7: a run whose job description or resume text is empty fails at once with
\* the input error: no callback is invoked, no keyword is extracted, nothing
\* is scored or tailored.
C7_EmptyInputFailsImmediately ==
  (jobDescription = "" \/ cvText = "") =>
    /\ pc \in {"idle", "failed"}
    /\ run.steps = <<>>
    /\ keywords = EmptyKeywordSet
    /\ tailor = TailorIdle
    /\ run.initialMatch = NoScoreResult /\ run.finalMatch = NoScoreResult
    /\ ~run.returned
    /\ pc = "failed" => run.error = "Job description and CV are required"

\* A run that failed on an empty resume text with a job description given
C7_Witness ==
  /\ pc = "failed" /\ cvText = "" /\ jobDescription # ""
  /\ run.error = "Job description and CV are required"

\* C8: when extraction yields no keyword for a non-empty job description the
\* run fails with an error other than the input error, returns no result,
\* and nothing after extraction happens: no scoring, no score or chips
\* callback, no tailoring, no progress beyond 10.
C8_ZeroKeywordsFail ==
  (/\ CountOfStep(run.steps, "extractJobKeywords") > 0
   /\ pc # "extracting"
   /\ keywords.all = <<>>)
    => /\ pc = "failed"
       /\ run.error = "Could not extract keywords from job description"
       /\ run.error # "Job description and CV are required"
       /\ ~run.returned
       /\ StepNames(run.steps) = <<"onProgress", "extractJobKeywords">>
       /\ ProgressValues(run.steps) = <<10>>
       /\ tailor = TailorIdle
       /\ run.initialMatch = NoScoreResult /\ run.finalMatch = NoScoreResult

\* A failed run on a non-empty job description without any keyword
C8_Witness ==
  /\ pc = "failed" /\ jobDescription # "" /\ cvText # ""
  /\ keywords.all = <<>>
  /\ CountOfStep(run.steps, "extractJobKeywords") = 1
  /\ run.error = "Could not extract keywords from job description"

\* The position of the first step named name; 0 if there is none
FirstStep(steps, name) ==
  IF \E i \in DOMAIN steps : steps[i].name = name
  THEN CHOOSE i \in DOMAIN steps :
         /\ steps[i].name = name
         /\ \A j \in 1..(i - 1) : steps[j].name # name
  ELSE 0

\* The position of the progress report of value v; 0 if there is none
ProgressStep(steps, v) ==
  IF \E i \in DOMAIN steps : steps[i].name = "onProgress" /\ steps[i].value = v
  THEN CHOOSE i \in DOMAIN steps : steps[i].name = "onProgress" /\ steps[i].value = v
  ELSE 0

\* C9: the percentages passed to the progress callback in one run are
\* strictly increasing and a prefix of (10, 25, 50, 75, 100); a run that
\* returns a result has reported all five, each once; 100 is reported only
\* after the final match was calculated.
C9_ProgressSequence ==
  LET reported == ProgressValues(run.steps)
  IN  /\ IsPrefix(reported, <<10, 25, 50, 75, 100>>)
      /\ \A i, j \in DOMAIN reported : i < j => reported[i] < reported[j]
      /\ run.returned => reported = <<10, 25, 50, 75, 100>>
      /\ ProgressStep(run.steps, 100) # 0 =>
           /\ FirstStep(run.steps, "calculateFinalMatch") # 0
           /\ FirstStep(run.steps, "calculateFinalMatch") < ProgressStep(run.steps, 100)

\* A run that returned its result after the five reports
C9_Witness ==
  /\ pc = "done" /\ run.returned
  /\ ProgressValues(run.steps) = <<10, 25, 50, 75, 100>>

\* The steps of a complete run, in order
PhaseOrder ==
  <<"onProgress", "extractJobKeywords",
    "onProgress", "calculateInitialMatch", "onScoreUpdate", "onChipsUpdate", "delay",
    "onProgress", "tailorCVForTarget",
    "onProgress", "calculateFinalMatch", "onScoreUpdate", "onChipsUpdate",
    "onProgress", "return">>

PhasesInOrder ==
  /\ IsPrefix(StepNames(run.steps), PhaseOrder)
  /\ \A i \in DOMAIN run.steps :
       run.steps[i].name = "onScoreUpdate" =>
         /\ run.steps[i].phase = (IF i < FirstStep(run.steps, "tailorCVForTarget")
                                     \/ FirstStep(run.steps, "tailorCVForTarget") = 0
                                  THEN "initial" ELSE "final")
         /\ run.steps[i].value = (IF run.steps[i].phase = "initial"
                                  THEN run.initialMatch.score
                                  ELSE run.finalMatch.score)
  /\ tailor.pc # "none" => CountOfStep(run.steps, "tailorCVForTarget") = 1
  /\ CountOfStep(run.steps, "tailorCVForTarget") = 1 => tailor.pc # "none"
  /\ pc = "done" =>
       /\ StepNames(run.steps) = PhaseOrder
       /\ CountOfStep(run.steps, "tailorCVForTarget") = 1
       /\ tailor.pc = "returned"
       /\ run.result.tailoredCV = tailor.result.tailoredCV
       /\ run.finalMatch = calculateFinalMatch(env, tailor.result.tailoredCV, keywords)
       /\ run.result.finalScore = run.finalMatch.score
  /\ pc = "failed" =>
       /\ ~run.returned
       /\ CountOfStep(run.steps, "return") = 0
       /\ run.error # ""

\* C10: a run that passes extraction goes through extraction, initial
\* scoring (the initial score is reported before tailoring starts),
\* tailoring, final scoring of the tailoring output and Done, in this order;
\* tailoring is invoked exactly once, also when the initial score meets the
\* target; a run that failed never reaches Done.
C10_PhaseOrder ==
  /\ []PhasesInOrder
  /\ [][pc = "failed" => pc' = "failed"]_vars
  /\ [][pc' = "done" => pc = "tailoring"]_vars

\* A complete run whose initial score already met the target score
C10_Witness ==
  /\ pc = "done"
  /\ run.initialMatch.score >= InstanceTargetScore(targetScore)
  /\ CountOfStep(run.steps, "tailorCVForTarget") = 1

\* C11: every successful run of the orchestrator ends with a final match
\* score of at least the target score (95 by default), whatever the number of
\* extracted keywords and whichever sections the resume has.
C11_FinalScoreReachesTarget ==
  pc = "done" => run.result.finalScore >= InstanceTargetScore(targetScore)

\* C12: tailoring a resume that has a skills section with the one-keyword
\* list [k], k occurring nowhere in the resume, returns a text whose skills
\* section contains k as a standalone word, and matchKeywords on the tailored
\* text reports k as matched.
C12_SingleKeywordLandsInSkills ==
  (/\ op = "tailorCV" /\ tailor.kw.shape = "array" /\ tailor.pc = "returned"
   /\ Len(kwInput) = 1
   /\ ~Includes(ToLowerCase(cvText), ToLowerCase(kwInput[1]))
   /\ GetSection(tailor.parsed.sections, "skills") # "")
    => /\ WordBoundaryTest(GetSection(tailor.enhancedSections, "skills"), kwInput[1])
       /\ InSeq(matchKeywords(tailor.result.tailoredCV, kwInput).matched, kwInput[1])

(***************************************************************************)
(* Agreement of the presence checks (SpecMatch)                            *)
(***************************************************************************)
\* The keywords of kwInput the matcher's escaped word-boundary regex finds
\* in cvText
PresentByMatcher ==
  LET cvLower == ToLowerCase(cvText)
      Present(k) == KeywordMatches(cvLower, k)
  IN  SelectSeq(kwInput, Present)

\* C13: on every text and keyword list, the keyword chips, the orchestrator's
\* fallback scoring and the injector's already-present check judge a keyword
\* present exactly when the word-boundary regex of matchKeywords matches.
C13_PresenceChecksAgree ==
  (/\ pc = "returned"
   /\ op \in {"renderKeywordChips", "calculateInitialMatch", "enhanceSkills"})
    => matchResult.matched = PresentByMatcher

(***************************************************************************)
(* Properties of the ranking (SpecExtract)                                 *)
(***************************************************************************)
\* The single-word score records extractKeywords builds for jobDescription
SingleWordScores == TermScores(calculateTF(tokenize(cleanText(jobDescription))))

\* 0-based index of x in q, -1 when absent
IndexIn(q, x) ==
  IF InSeq(q, x) THEN (CHOOSE i \in DOMAIN q : q[i] = x /\ \A j \in 1..(i - 1) : q[j] # x) - 1
  ELSE -1

\* a is a high-value term, b is not, and both occur equally often
BoostedPair(a, b) ==
  /\ a.term \in HIGH_VALUE_KEYWORDS
  /\ b.term \notin HIGH_VALUE_KEYWORDS
  /\ a.frequency = b.frequency

\* C14: of two single-word terms that occur equally often in a job
\* description, the one in the high-value vocabulary has the strictly higher
\* rank score, whatever their lengths and digits or '+'/'#'; when
\* extractKeywords keeps both, it ranks before the other.
C14_HighValueOutranks ==
  (pc = "returned" /\ op = "extractKeywords") =>
    \A scores \in {SingleWordScores} : \A i, j \in DOMAIN scores :
      LET a == scores[i]
          b == scores[j]
      IN  BoostedPair(a, b) =>
            /\ ScoreLess(b, a)
            /\ (InSeq(keywords.all, a.term) /\ InSeq(keywords.all, b.term))
                 => IndexIn(keywords.all, a.term) < IndexIn(keywords.all, b.term)

\* The closest case: a short high-value term (idf 2.0) and a long term with a
\* digit outside the vocabulary (idf 1.5 * 1.3), both kept
C14_Witness ==
  /\ pc = "returned" /\ op = "extractKeywords"
  /\ \E scores \in {SingleWordScores} : \E i, j \in DOMAIN scores :
       LET a == scores[i]
           b == scores[j]
       IN  /\ BoostedPair(a, b)
           /\ Len(a.term) < 6 /\ ~HasDigit(a.term) /\ ~HasPlusOrHash(a.term)
           /\ Len(b.term) >= 8 /\ HasDigit(b.term)
           /\ InSeq(keywords.all, a.term) /\ InSeq(keywords.all, b.term)

(***************************************************************************)
(* Properties of the orchestrator's result (Spec)                          *)
(***************************************************************************)
\* C15: the result of a successful run has stats.keywordsExtracted =
\* len(keywords.all), stats.keywordsInjected = len(injectedKeywords),
\* stats.scoreImprovement = finalScore - initialScore, originalCV = the input
\* resume, and the matched and missing keywords of the final scoring of
\* tailoredCV.
C15_ResultBundle ==
  pc = "done" =>
    /\ run.result.keywords = keywords
    /\ run.result.stats.keywordsExtracted = Len(run.result.keywords.all)
    /\ run.result.stats.keywordsInjected = Len(run.result.injectedKeywords)
    /\ run.result.stats.scoreImprovement
         = run.result.finalScore - run.result.initialScore
    /\ run.result.originalCV = cvText
    /\ run.result.tailoredCV = tailor.result.tailoredCV
    /\ \E finalScoring \in {calculateFinalMatch(env, run.result.tailoredCV, keywords)} :
         /\ run.result.matchedKeywords = finalScoring.matched
         /\ run.result.missingKeywords = finalScoring.missing
         /\ run.result.finalScore = finalScoring.score

\* A successful run in which tailoring injected keywords and changed both the
\* text and the set of matched keywords
C15_Witness ==
  /\ pc = "done"
  /\ run.result.injectedKeywords # <<>>
  /\ run.result.tailoredCV # run.result.originalCV
  /\ run.result.stats.scoreImprovement > 0
  /\ run.result.matchedKeywords # run.initialMatch.matched

(***************************************************************************)
(* The two keyword shapes (SpecTailor)                                     *)
(***************************************************************************)
\* C16: tailorCV called with the remote service's breakdown of a keyword list
\* works on the same keyword list and returns the same text, injections and
\* scores as the call with a local KeywordSet of the same keywords.
C16_KeywordShapesInterchangeable ==
  (op = "tailorCV" /\ tailor.kw.shape = "remote" /\ tailor.pc = "returned") =>
    \E local \in {TailorToEnd(TailorStart(cvText, KeywordSetArg(keywords),
                                          targetScore, env))} :
      /\ tailor.kw.ats_priority_keywords = keywords.all
      /\ tailor.keywordList = local.keywordList
      /\ tailor.result.tailoredCV = local.result.tailoredCV
      /\ tailor.result.injectedKeywords = local.result.injectedKeywords
      /\ tailor.result.finalScore = local.result.finalScore

(***************************************************************************)
(* The remote keyword service on one request: the edge function's handler, *)
(* one step per stretch between two awaits.  The gateway's answer is the   *)
(* environment's choice.                                                   *)
(***************************************************************************)
ServiceDescriptions ==
  {NoDescription,
   [kind |-> "string", text |-> ""],
   [kind |-> "string", text |-> "Python developer"],
   [kind |-> "string", text |-> "Senior Python developer with AWS and Docker, SQL."],
   [kind |-> "string", text |-> "Senior Python developer with AWS, Docker, and SQL."],
   [kind |-> "string", text |-> "We are hiring a data engineer with Python, SQL, Airflow and AWS experience."],
   [kind |-> "number", text |-> ""]}

\* What `await req.json()` finds: no JSON, the JSON value null, or an object
ServiceBodies ==
  {[kind |-> "not_json", description |-> NoDescription, jobTitle |-> ""],
   [kind |-> "null", description |-> NoDescription, jobTitle |-> ""]}
  \cup {[kind |-> "object", description |-> d, jobTitle |-> j] :
          d \in ServiceDescriptions, j \in {"", "Data Engineer"}}

NoArguments ==
  [required_skills |-> <<>>, tools_technologies |-> <<>>, certifications |-> <<>>,
   preferred_skills |-> <<>>, soft_skills |-> <<>>, job_title |-> ""]

\* The arguments of the tool call; a missing array is the empty one
ToolArguments ==
  {[NoArguments EXCEPT !.required_skills = r, !.tools_technologies = t,
                       !.soft_skills = s, !.job_title = j] :
     r \in {<<>>, <<"Python", "SQL">>, <<"Python", "Python">>},
     t \in {<<>>, <<"Docker", "Python">>},
     s \in {<<>>, <<"communication", "leadership", "teamwork", "ownership",
                    "mentoring", "curiosity">>},
     j \in {"", "Backend Engineer"}}

UpstreamOutcomes ==
  {[kind |-> "network_error", status |-> 0, payload |-> "none",
    arguments |-> NoArguments]}
  \cup {[kind |-> "status", status |-> st, payload |-> "none",
         arguments |-> NoArguments] : st \in {402, 429, 500}}
  \cup {[kind |-> "ok", status |-> 200, payload |-> p, arguments |-> NoArguments] :
          p \in {"not_json", "no_tool_call", "wrong_tool", "bad_arguments",
                 "null_arguments"}}
  \cup {[kind |-> "ok", status |-> 200, payload |-> "tool_call", arguments |-> a] :
          a \in ToolArguments}

InitService ==
  /\ service \in {[NoService EXCEPT !.pc = "idle", !.method = m, !.body = b,
                                    !.apiKey = k] :
                    m \in {"OPTIONS", "POST"}, b \in ServiceBodies, k \in BOOLEAN}
  /\ jobDescription = "" /\ cvText = "" /\ maxKeywords = 0 /\ targetScore = 0
  /\ kwInput = <<>> /\ env = NoEnv
  /\ op = "none" /\ pc = "idle"
  /\ keywords = EmptyKeywordSet /\ matchResult = NoMatch
  /\ parsed = NoParse /\ reparsed = NoParse
  /\ tailor = TailorIdle /\ run = NoRun
  /\ cvTailor = NoCVTailor /\ pair = NoPair /\ timers = 0

ServiceUnchanged ==
  UNCHANGED <<args, op, pc, keywords, matchResult, parsed, reparsed, tailor, run,
              cvTailor, pair, timers>>

\* The request arrives: the preflight answer, or `await req.json()`
ServeRequest ==
  /\ service.pc = "idle"
  /\ service' = IF service.method = "OPTIONS"
                THEN [service EXCEPT !.pc = "responded", !.status = 200]
                ELSE [service EXCEPT !.pc = "readingBody"]
  /\ ServiceUnchanged

ServeBody ==
  /\ service.pc = "readingBody"
  /\ service' = ServiceBody(service)
  /\ ServiceUnchanged

ServeFetched ==
  /\ service.pc = "fetching"
  /\ \E outcome \in UpstreamOutcomes : service' = ServiceFetched(service, outcome)
  /\ ServiceUnchanged

ServeUpstreamRead ==
  /\ service.pc = "readingUpstream"
  /\ service' = ServiceUpstreamRead(service)
  /\ ServiceUnchanged

NextService ==
  \/ ServeRequest
  \/ ServeBody
  \/ ServeFetched
  \/ ServeUpstreamRead

SpecService == InitService /\ [][NextService]_vars

(***************************************************************************)
(* Properties of the remote keyword service (SpecService)                  *)
(***************************************************************************)
\* The request's JSON body has no usable description: none at all, or a
\* string shorter than 50 characters
InputMalformedOrMissing(body) ==
  /\ body.kind = "object"
  /\ \/ body.description.kind = "absent"
     \/ body.description.kind = "string"
          /\ Len(body.description.text) < MIN_DESCRIPTION_LENGTH

\* The body could not be parsed into an object
RequestUnreadable(body) == body.kind \in {"not_json", "null"}

\* The gateway or the parsing of its answer failed, other than by a 429
UpstreamFailed(up) ==
  \/ up.kind = "status" /\ up.status # 429
  \/ up.kind = "ok" /\ up.payload # "tool_call"

IsCeiling(c, n, num, den) == c * den >= n * num /\ (c - 1) * den < n * num

\* min(cap, ceil(n * num / den))
CappedCeiling(n, num, den, cap) ==
  Min(cap, CHOOSE c \in 0..(n + 1) : IsCeiling(c, n, num, den))

\* The tiers are consecutive slices of the ranked list
TiersPositional(ks) ==
  /\ ks.highPriority \o ks.mediumPriority \o ks.lowPriority = ks.all
  /\ ks.highPriority = SubSeq(ks.all, 1, Len(ks.highPriority))

\* C18 as stated: for every number n of keywords extractKeywords keeps,
\* |highPriority| = min(15, ceil(0.4 n)), |mediumPriority| =
\* min(10, ceil(0.35 n)), lowPriority holds the rest, and the tiers are
\* positional over the ranked list.
C18_TierSizes ==
  (pc = "returned" /\ op = "extractKeywords") =>
    LET n == Len(keywords.all)
    IN  /\ Len(keywords.highPriority) = CappedCeiling(n, 2, 5, 15)
        /\ Len(keywords.mediumPriority) = CappedCeiling(n, 7, 20, 10)
        /\ Len(keywords.lowPriority)
             = n - Len(keywords.highPriority) - Len(keywords.mediumPriority)
        /\ TiersPositional(keywords)

\* C18 amended: |highPriority| = min(15, ceil(0.4 n)), |mediumPriority| is
\* min(10, ceil(0.35 n)) or, when fewer keywords remain after the high tier,
\* all of those that remain; lowPriority holds the rest and the tiers are
\* positional.
C18_TierSizesAmended ==
  (pc = "returned" /\ op = "extractKeywords") =>
    LET n == Len(keywords.all)
    IN  /\ Len(keywords.highPriority) = CappedCeiling(n, 2, 5, 15)
        /\ Len(keywords.mediumPriority)
             = Min(CappedCeiling(n, 7, 20, 10), n - Len(keywords.highPriority))
        /\ Len(keywords.lowPriority)
             = n - Len(keywords.highPriority) - Len(keywords.mediumPriority)
        /\ TiersPositional(keywords)

\* A ranked list long enough for both caps to bind
C18_Witness ==
  /\ pc = "returned" /\ op = "extractKeywords"
  /\ Len(keywords.all) >= 38
  /\ Len(keywords.highPriority) = 15
  /\ Len(keywords.mediumPriority) = 10
  /\ keywords.lowPriority # <<>>

\* The score records of jobDescription in the order the dedup pass reads them
RankedScores ==
  LET cleaned == cleanText(jobDescription)
  IN  SortByScore(TermScores(calculateTF(tokenize(cleaned)))
                    \o PhraseScores(extractPhrases(cleaned)), <<>>)

\* The words of a phrase: item.term.split(' ')
PhraseWords(phrase) == SeqToSet(SplitOn(phrase, " "))

IsPhraseTerm(term) == Includes(term, " ")

\* C19: in the KeywordSet extractKeywords returns, no single-word keyword of
\* `all` is a constituent word of a multi-word phrase of `all`; the dedup pass
\* reads every detected phrase before each of its constituent words.
C19_PhraseSuppressesWords ==
  (pc = "returned" /\ op = "extractKeywords") =>
    /\ \A i, j \in DOMAIN keywords.all :
         IsPhraseTerm(keywords.all[i]) => keywords.all[j] \notin PhraseWords(keywords.all[i])
    /\ \A ranked \in {RankedScores} : \A i, j \in DOMAIN ranked :
         (/\ ranked[i].isPhrase /\ ~ranked[j].isPhrase
          /\ ranked[j].term \in PhraseWords(ranked[i].term)) => i < j

\* A kept phrase one of whose words is a token of the description more often
\* than the phrase occurs, and is not kept
C19_Witness ==
  /\ pc = "returned" /\ op = "extractKeywords"
  /\ \E ranked \in {RankedScores} : \E i, j \in DOMAIN ranked :
       /\ ranked[i].isPhrase /\ ~ranked[j].isPhrase
       /\ ranked[j].term \in PhraseWords(ranked[i].term)
       /\ ranked[j].frequency > ranked[i].frequency
       /\ InSeq(keywords.all, ranked[i].term)
       /\ ~InSeq(keywords.all, ranked[j].term)

(***************************************************************************)
(* Properties of the section parse (SpecParse)                             *)
(***************************************************************************)
\* The lines of a text that are not blank, each without surrounding whitespace
ContentLines(text) ==
  LET trimmed == [i \in DOMAIN SplitOn(text, "\n") |-> Trim(SplitOn(text, "\n")[i])]
      Filled(line) == line # ""
  IN  SelectSeq(trimmed, Filled)

\* The content lines of the sections of p named in names, in that order
RECURSIVE SectionLines(_, _)
SectionLines(p, names) ==
  IF names = <<>> THEN <<>>
  ELSE ContentLines(GetSection(p.sections, Head(names))) \o SectionLines(p, Tail(names))

\* C20: parseCV drops nothing: every line of the text is in the header or in
\* the text of a section listed in sectionOrder, and the header followed by
\* the sections in sectionOrder order gives back all lines of the text, also
\* when a section header name occurs more than once (blank lines and the
\* whitespace around a line are not counted).
C20_ParseDropsNothing ==
  (op = "parseCV" /\ pc = "parsed") =>
    \A kept \in {ContentLines(parsed.header) \o SectionLines(parsed, parsed.sectionOrder)} :
      /\ SeqToSet(ContentLines(cvText)) \subseteq SeqToSet(kept)
      /\ Len(kept) = Len(ContentLines(cvText))

(***************************************************************************)
(* Properties of the section-array engine (SpecSections)                   *)
(***************************************************************************)
\* Every keyword of injected occurs in the text made of lines
WrittenIn(lines, injected) ==
  \A text \in {Join(lines, "\n")} :
    \A i \in DOMAIN injected : Includes(text, injected[i])

\* C21: a strategy reports a keyword in its injected list only if it wrote
\* text containing that keyword: every keyword of `injected` occurs in the
\* lines the strategy returns, also for experience bullets that contain a
\* '.' or ',' without ending in one.
C21_InjectedWasWritten ==
  (pc = "returned" /\ op = "CVTailor.tailorCV") =>
    /\ WrittenIn(cvTailor.summaryResult.lines, cvTailor.summaryResult.injected)
    /\ WrittenIn(cvTailor.experienceResult.lines, cvTailor.experienceResult.injected)
    /\ WrittenIn(cvTailor.skillsResult.lines, cvTailor.skillsResult.injected)

\* C22: in one run of CVTailor.tailorCV a keyword injected by an earlier
\* strategy is not injected again by a later one: each keyword occurs at most
\* once in injectedKeywords, also when the skills section is synthesized.
C22_NoReinjection ==
  (pc = "returned" /\ op = "CVTailor.tailorCV") =>
    NoDuplicates(cvTailor.injectedKeywords)

(***************************************************************************)
(* Properties of TailorUniversal.tailorCV, continued (SpecTailor)          *)
(***************************************************************************)
\* C23: every keyword tailorCV reports in injectedKeywords was missing from
\* the original resume text at initial scoring: a keyword already matched
\* anywhere in the original text is never injected.
C23_InjectedWereMissing ==
  (pc = "tailoring" /\ tailor.pc = "returned") =>
    \A i \in DOMAIN tailor.result.injectedKeywords :
      ~WordBoundaryTest(tailor.cv, tailor.result.injectedKeywords[i])

(***************************************************************************)
(* Properties of the section parse, continued (SpecParse)                  *)
(***************************************************************************)
\* The section names the lines of a text open, one entry per header line
OpenedSections(text) ==
  LET lines == SplitOn(text, "\n")
      found == [i \in DOMAIN lines |->
                  FirstMatchingSection(SECTION_NAMES, ToLowerCase(lines[i]))]
      Opens(name) == name # ""
  IN  SelectSeq(found, Opens)

\* C24: parseCV's sectionOrder holds each non-header section name at most
\* once, in the order in which the sections are first opened in the text;
\* 'header' is never in it, and every non-header key of `sections` is in it.
C24_SectionOrder ==
  (op = "parseCV" /\ pc = "parsed") =>
    /\ NoDuplicates(parsed.sectionOrder)
    /\ parsed.sectionOrder = DistinctInOrder(OpenedSections(cvText), {})
    /\ ~InSeq(parsed.sectionOrder, "header")
    /\ (DOMAIN parsed.sections) \ {"header"} \subseteq SeqToSet(parsed.sectionOrder)

\* A text that opens a section, another one, and the first one again
C24_Witness ==
  /\ op = "parseCV" /\ pc = "parsed"
  /\ Len(parsed.sectionOrder) >= 2
  /\ \E opened \in {OpenedSections(cvText)} : \E i, j, k \in DOMAIN opened :
       i < j /\ j < k /\ opened[i] = opened[k] /\ opened[i] # opened[j]

(***************************************************************************)
(* Properties of TailorUniversal.tailorCV: short cut, caps, frame          *)
(* (SpecTailor)                                                            *)
(***************************************************************************)
\* The call got past its keyword check and its initial match score is a
\* number that reaches the target
InitialScoreMeetsTarget(t) ==
  /\ t.cv # "" /\ t.keywordList # <<>>
  /\ TailorInitialMatch(t).defined
  /\ TailorInitialMatch(t).matchScore >= EffectiveTarget(t.targetScore)

\* C25: when the initial match score meets or exceeds the target score,
\* tailorCV returns the input text as tailoredCV, an empty injectedKeywords
\* list, all section stats 0 and finalScore = initialScore, and no injection
\* strategy has run.
C25_ShortCircuit ==
  (pc = "tailoring" /\ tailor.pc \notin {"none", "parsed"}
   /\ InitialScoreMeetsTarget(tailor)) =>
    /\ tailor.pc = "returned"
    /\ tailor.result.tailoredCV = tailor.cv
    /\ tailor.result.originalCV = tailor.cv
    /\ tailor.result.injectedKeywords = <<>>
    /\ tailor.result.stats = NoStats
    /\ tailor.result.hasScores
    /\ tailor.result.initialScore = TailorInitialMatch(tailor).matchScore
    /\ tailor.result.finalScore = tailor.result.initialScore
    /\ tailor.summaryInjected = <<>> /\ tailor.experienceInjected = <<>>
    /\ tailor.skillsInjected = <<>> /\ tailor.allInjected = <<>>
    /\ tailor.enhancedSections = EmptySections

\* A short cut taken although a keyword of the list is missing from the text
C25_Witness ==
  /\ pc = "tailoring" /\ tailor.pc = "returned"
  /\ InitialScoreMeetsTarget(tailor)
  /\ tailor.initialMatch.missing # <<>>
  /\ tailor.result.initialScore < 100
  /\ tailor.result.tailoredCV = tailor.cv

\* The lines of a section text that the experience strategy treats as bullets
BulletLines(text) ==
  LET IsBullet(line) == BulletMatch(line).ok
  IN  SelectSeq(SplitOn(text, "\n"), IsBullet)

\* The keywords of injected that line i of the enhanced text holds and line i
\* of the original text does not
NewInLine(original, enhanced, injected, i) ==
  {k \in DOMAIN injected :
     /\ WordBoundaryTest(SplitOn(enhanced, "\n")[i], injected[k])
     /\ ~WordBoundaryTest(SplitOn(original, "\n")[i], injected[k])}

\* C26: in every tailorCV run the summary strategy injects at most
\* MAX_KEYWORDS_SUMMARY keywords, the experience strategy at most
\* MAX_KEYWORDS_EXPERIENCE and at most one per bullet line, and the skills
\* strategy at most MAX_KEYWORDS_SKILLS.
C26_StrategyCaps ==
  (pc = "tailoring" /\ tailor.pc = "returned" /\ tailor.allInjected # <<>>) =>
    /\ Len(tailor.summaryInjected) <= MAX_KEYWORDS_SUMMARY
    /\ Len(tailor.experienceInjected) <= MAX_KEYWORDS_EXPERIENCE
    /\ Len(tailor.skillsInjected) <= MAX_KEYWORDS_SKILLS
    /\ tailor.result.stats.summary = Len(tailor.summaryInjected)
    /\ tailor.result.stats.experience = Len(tailor.experienceInjected)
    /\ tailor.result.stats.skills = Len(tailor.skillsInjected)
    /\ \A original \in {GetSection(tailor.parsed.sections, "experience")} :
       \A enhanced \in {GetSection(tailor.enhancedSections, "experience")} :
         /\ Len(tailor.experienceInjected) <= Len(BulletLines(original))
         /\ Len(SplitOn(enhanced, "\n")) = Len(SplitOn(original, "\n"))
         /\ \A i \in DOMAIN SplitOn(original, "\n") :
              Cardinality(NewInLine(original, enhanced, tailor.experienceInjected, i)) <= 1

\* A run that stops at the caps: more bullets and candidates than the
\* experience strategy takes, more keywords left than the skills strategy takes
C26_Witness ==
  /\ pc = "tailoring" /\ tailor.pc = "returned"
  /\ Len(BulletLines(GetSection(tailor.parsed.sections, "experience")))
       > MAX_KEYWORDS_EXPERIENCE
  /\ Len(tailor.experienceInjected) = MAX_KEYWORDS_EXPERIENCE
  /\ Len(tailor.skillsInjected) = MAX_KEYWORDS_SKILLS
  /\ tailor.summaryInjected # <<>>
  /\ Len(tailor.kw.highPriority) > MAX_KEYWORDS_SUMMARY
  /\ Len(tailor.keywordList) > Len(tailor.allInjected)

UntargetedSections(order) ==
  LET Untargeted(name) == name \notin {"summary", "experience", "skills"}
  IN  SelectSeq(order, Untargeted)

\* Each of parts occurs in text at or after 0-based position from, one after
\* the other
RECURSIVE AppearInOrder(_, _, _)
AppearInOrder(text, parts, from) ==
  IF parts = <<>> THEN TRUE
  ELSE \E i \in {IndexOfFrom(text, Head(parts), from)} :
         /\ i >= 0
         /\ AppearInOrder(text, Tail(parts), i + Len(Head(parts)))

\* The header and the untargeted sections of the parse p, in sectionOrder order
FrameParts(p) ==
  (IF p.header # "" THEN <<p.header>> ELSE <<>>)
  \o [i \in DOMAIN UntargetedSections(p.sectionOrder) |->
        GetSection(p.sections, UntargetedSections(p.sectionOrder)[i])]

\* C30: in the text tailorCV returns, the header and every parsed section
\* other than summary, experience and skills appear with exactly their parsed
\* text and in sectionOrder order, and the keywords handed in are unchanged.
C30_Frame ==
  (pc = "tailoring" /\ tailor.pc = "returned") =>
    /\ AppearInOrder(tailor.result.tailoredCV, FrameParts(parseCV(tailor.cv)), 0)
    /\ tailor.cv = cvText
    /\ tailor.kw \in {KeywordSetArg(keywords), KeywordArray(kwInput),
                      RemoteBreakdownArg(kwInput)}

\* The awaits of TailorUniversal.tailorCV: after parseCV and before each of
\* the three strategies
TAILOR_AWAITS == 4

\* The timers of one orchestrator run: the delay and the awaits of tailorCV
RUN_TIMERS == 5

\* The `await this.delay(300)` steps a run has taken
DelaysTaken ==
  Cardinality({i \in DOMAIN run.steps : run.steps[i].name = "delay"})

\* C29: under fair scheduling of its timers every orchestrator run that was
\* started ends in done (a result) or failed (an error), after at most one
\* delay and at most TAILOR_AWAITS yields of tailorCV.
C29_Terminates ==
  /\ [](tailor.yields <= TAILOR_AWAITS /\ DelaysTaken <= 1 /\ timers <= RUN_TIMERS)
  /\ (pc # "idle") ~> (pc \in {"done", "failed"})

\* A run that took the delay and every yield of tailorCV and returned a result
C29_Witness ==
  /\ pc = "done" /\ run.returned
  /\ DelaysTaken = 1
  /\ tailor.yields = TAILOR_AWAITS
  /\ timers = RUN_TIMERS
  /\ tailor.allInjected # <<>>

\* Run i of the pair settled as it settles alone on the inputs it was called with
SettledAsAlone(i) ==
  \A r \in {pair.runs[i]} :
    r.pc \in {"done", "failed"} =>
      \A alone \in {RunAlone(r, targetScore, maxKeywords, env).run} :
        /\ r.pc = alone.pc
        /\ r.tailorResult = alone.tailorResult
        /\ r.runResult = alone.runResult
        /\ r.error = alone.error

\* C28: two runs interleaved at their suspension points, on the same or on
\* different inputs, do not interfere: each returns what it returns alone, and
\* no run changes a keyword object that the other run reads.
C28_NoInterference ==
  /\ SettledAsAlone(1)
  /\ SettledAsAlone(2)
  /\ pair.heap \in PairHeaps
  /\ \A i \in 1..2 : pair.runs[i].ref = 0 => pair.runs[i].own = pair.runs[i].passed

\* Two calls of tailorCV on the same keyword object, one resumed while the other
\* was suspended, both returned with keywords injected
C28_Witness ==
  /\ pair.overlapped
  /\ \A i \in 1..2 :
       /\ pair.runs[i].kind = "tailorCV" /\ pair.runs[i].pc = "done"
       /\ pair.runs[i].tailorResult.injectedKeywords # <<>>
  /\ pair.runs[1].ref = pair.runs[2].ref
  /\ pair.runs[1].cv # pair.runs[2].cv

====
